---- MODULE Spec2Model ----
(***************************************************************************)
(* Expense-tracker backend: the recurring-expense processor                *)
(* (app/routers/recurring.py), the expense store it writes to              *)
(* (app/routers/expenses.py, app/models.py), the analytics summary         *)
(* (app/routers/analytics.py), the budgets (app/routers/budgets.py) and    *)
(* authentication (app/security.py, app/routers/auth.py).                  *)
(*                                                                         *)
(* Time is a naive UTC datetime, counted in whole hours since              *)
(* 1970-01-01T00:00.  An amount is counted in thousandths of a currency    *)
(* unit, a percentage in hundredths of a percent.  An optional column is   *)
(* <<>> (None) or <<v>>.                                                   *)
(* Every handler is an `async def` without an await in its body and the    *)
(* service runs as one uvicorn process, so a handler is one atomic step.   *)
(***************************************************************************)
EXTENDS Integers, Sequences, FiniteSets, TLC

VARIABLES
  clock,      \* what datetime.utcnow() returns
  recurring,  \* rows of table recurring_expenses
  expenses,   \* rows of table expenses
  users,      \* rows of table users
  budgets,    \* rows of table budgets
  creating,   \* create_budget requests between their query and their commit
  token_blacklist,  \* security.token_blacklist
  passes,     \* passes of process_recurring_expenses between their query and their return
  last        \* the last request and its response

vars == <<clock, recurring, expenses, users, budgets, creating, token_blacklist, passes,
          last>>

\* what the expense, recurring and analytics handlers never touch
auth_budget_vars == <<users, budgets, creating, token_blacklist, passes>>

(***************************************************************************)
(* Bounds of the model.                                                    *)
(***************************************************************************)
MaxRecurring == 2
MaxExpenses  == 3

(***************************************************************************)
(* datetime: the proleptic Gregorian calendar of Python's datetime.        *)
(***************************************************************************)
\* date.toordinal-style day number of the civil date y-m-d, 1970-01-01 = 0
DaysFromCivil(y, m, d) ==
  LET y1  == IF m <= 2 THEN y - 1 ELSE y
      era == y1 \div 400
      yoe == y1 - era * 400
      doy == (153 * (IF m > 2 THEN m - 3 ELSE m + 9) + 2) \div 5 + d - 1
      doe == yoe * 365 + yoe \div 4 - yoe \div 100 + doy
  IN  era * 146097 + doe - 719468

\* the civil date of day number z
Civil(z) ==
  LET z1  == z + 719468
      era == z1 \div 146097
      doe == z1 % 146097
      yoe == (doe - doe \div 1460 + doe \div 36524 - doe \div 146096) \div 365
      doy == doe - (365 * yoe + yoe \div 4 - yoe \div 100)
      mp  == (5 * doy + 2) \div 153
      d   == doy - (153 * mp + 2) \div 5 + 1
      m   == IF mp < 10 THEN mp + 3 ELSE mp - 9
  IN  [year |-> yoe + era * 400 + (IF m <= 2 THEN 1 ELSE 0), month |-> m, day |-> d]

\* datetime(y, m, d, h)
DateTime(y, m, d, h) == DaysFromCivil(y, m, d) * 24 + h

\* t.year, t.month, t.date()
Year(t)  == Civil(t \div 24).year
Month(t) == Civil(t \div 24).month
DateOf(t) == t \div 24

\* (a - b).days: timedelta normalises to 0 <= seconds < 86400, so days is the floor
TimedeltaDays(a, b) == (a - b) \div 24

\* timedelta(days=n)
Days(n) == n * 24

(***************************************************************************)
(* Enumerations and request inputs.                                        *)
(***************************************************************************)
CategoryEnum == <<"Food", "Transport", "Entertainment", "Utilities", "Health",
                  "Shopping", "Other">>

FrequencyEnum == {"daily", "weekly", "monthly", "yearly"}

None == <<>>
Some(v) == <<v>>

\* Python truthiness of an Optional[str]: None and "" are falsy
Truthy(opt) == opt # None /\ opt[1] # ""

\* str(x) inside an f-string, for an Optional[str]
Str(opt) == IF opt = None THEN "None" ELSE opt[1]

\* the next INTEGER PRIMARY KEY SQLite assigns: one more than the largest rowid
NewId(rows) ==
  IF rows = {} THEN 1
  ELSE (CHOOSE i \in {r.id : r \in rows} : \A r \in rows : r.id <= i) + 1

\* the orders in which a query without ORDER BY can return the rows
Orders(rows) ==
  {s \in [1..Cardinality(rows) -> rows] :
     \A i, j \in 1..Cardinality(rows) : i # j => s[i] # s[j]}

\* sum(exp.amount for exp in rows)
RECURSIVE SumAmounts(_)
SumAmounts(rows) ==
  IF rows = {} THEN 0
  ELSE LET e == CHOOSE e \in rows : TRUE
       IN  e.amount + SumAmounts(rows \ {e})

\* the response record of a request
Response(op, status) ==
  [op |-> op, status |-> status, now |-> clock, count |-> 0, evals |-> {},
   user |-> 0, months |-> 0, total_spending |-> 0, current_month_spending |-> 0,
   by_category |-> <<>>, monthly_trends |-> <<>>, detail |-> "", rows |-> {},
   total_amount |-> 0, csv |-> <<>>, authorization |-> None, access_token |-> None,
   refresh_token |-> None]

\* a password is the sequence of its characters
GoodPassword == <<"P", "a", "s", "s", "w", "0", "r", "d">>

\* hash_password(password): an argon2 hash, which verify_password matches against
\* the password it was made from (the salt is left out)
HashPassword(password) == <<"argon2", password>>

\* verify_password(plain_password, hashed_password)
VerifyPassword(plain_password, hashed_password) ==
  hashed_password = <<"argon2", plain_password>>

\* a row of table users, made by register from a body without full_name
\* (created_at and updated_at are not part of the model)
UserRow(id, email, password) ==
  [id |-> id, email |-> email, hashed_password |-> HashPassword(password),
   full_name |-> None]

\* SessionClose that writes the pending changes
SessionClose_Flushing(committed, pending) == pending

\* db.close() in the finally of get_db, reached without a commit: the changes
\* made to the objects of the session are dropped and the table stays as it was
\* committed
SessionClose(committed, pending) == committed

\* users 1 and 2 have registered; no budget and no revoked token yet
TwoAccounts ==
  /\ users = {UserRow(1, "a@example.com", GoodPassword),
              UserRow(2, "b@example.com", GoodPassword)}
  /\ budgets = {}
  /\ creating = {}
  /\ token_blacklist = {}
  /\ passes = {}

(***************************************************************************)
(* Expenses: app/routers/expenses.py                                       *)
(***************************************************************************)
\* A datetime of a request body is the pair of its wall-clock reading, date, and
\* its tzinfo: None for a naive datetime, Some(h) for a UTC offset of h hours.

\* expense_date.replace(tzinfo=None): the wall-clock reading as it is
ReplaceTzinfoNone(date, tzinfo) == date

\* the value the DateTime column keeps of a datetime: its wall-clock fields
ColumnDateTime(date, tzinfo) == date

\* POST /api/expenses (ExpenseCreate: amount > 0 and <= 1,000,000).  The columns
\* created_at, updated_at and receipt_path of an expense are not part of the
\* model.
CreateExpense(u, amount, category, description, date, tzinfo) ==
  /\ Cardinality(expenses) < MaxExpenses
  /\ IF amount <= 0 \/ amount > 1000000 * 1000
     THEN /\ last' = Response("create_expense", 422)
          /\ UNCHANGED <<clock, recurring, expenses, auth_budget_vars>>
     ELSE IF ReplaceTzinfoNone(date, tzinfo) > clock
     THEN /\ last' = [Response("create_expense", 400) EXCEPT
                        !.detail = "Expense date cannot be in the future"]
          /\ UNCHANGED <<clock, recurring, expenses, auth_budget_vars>>
     ELSE /\ expenses' = expenses \cup
               {[id |-> NewId(expenses), owner_id |-> u, amount |-> amount,
                 category |-> category, description |-> description,
                 date |-> ColumnDateTime(date, tzinfo)]}
          /\ last' = Response("create_expense", 200)
          /\ UNCHANGED <<clock, recurring, auth_budget_vars>>

\* DELETE /api/expenses/{expense_id}
DeleteExpense(u, eid) ==
  LET found == {e \in expenses : e.id = eid /\ e.owner_id = u}
  IN  IF found = {}
      THEN /\ last' = Response("delete_expense", 404)
           /\ UNCHANGED <<clock, recurring, expenses, auth_budget_vars>>
      ELSE /\ expenses' = expenses \ found
           /\ last' = Response("delete_expense", 200)
           /\ UNCHANGED <<clock, recurring, auth_budget_vars>>

\* the expenses with id eid that belong to u
ExpenseOf(u, eid) == {e \in expenses : e.id = eid /\ e.owner_id = u}

\* GET /api/expenses?start_date=&end_date=&category= (each filter optional)
GetExpenses(u, start_date, end_date, category) ==
  LET rows == {e \in expenses :
                 /\ e.owner_id = u
                 /\ start_date # None => e.date >= start_date[1]
                 /\ end_date # None => e.date <= end_date[1]
                 /\ category # None => e.category = category[1]}
  IN  /\ last' = [Response("get_expenses", 200) EXCEPT
                    !.rows = rows, !.count = Cardinality(rows),
                    !.total_amount = SumAmounts(rows)]
      /\ UNCHANGED <<clock, recurring, expenses, auth_budget_vars>>

\* GetExpense that looks the expense up by its id alone
GetExpense_AnyOwner(u, eid) ==
  LET found == {e \in expenses : e.id = eid}
  IN  /\ last' = IF found = {}
                 THEN [Response("get_expense", 404) EXCEPT !.detail = "Expense not found"]
                 ELSE [Response("get_expense", 200) EXCEPT !.rows = found]
      /\ UNCHANGED <<clock, recurring, expenses, auth_budget_vars>>

\* GET /api/expenses/{expense_id}
GetExpense(u, eid) ==
  LET found == ExpenseOf(u, eid)
  IN  /\ last' = IF found = {}
                 THEN [Response("get_expense", 404) EXCEPT !.detail = "Expense not found"]
                 ELSE [Response("get_expense", 200) EXCEPT !.rows = found]
      /\ UNCHANGED <<clock, recurring, expenses, auth_budget_vars>>

\* PUT /api/expenses/{expense_id} (ExpenseUpdate: amount > 0 when given, date
\* with the tzinfo of the body).  amount, category and description are assigned
\* before the date is looked at; a date in the future raises 400 and the
\* comparison of a timezone-aware date with utcnow() raises TypeError, answered
\* 500, both before the commit.
UpdateExpense(u, eid, data) ==
  LET found == ExpenseOf(u, eid)
  IN  IF data.amount # None /\ data.amount[1] <= 0
      THEN /\ last' = Response("update_expense", 422)
           /\ UNCHANGED <<clock, recurring, expenses, auth_budget_vars>>
      ELSE IF found = {}
      THEN /\ last' = [Response("update_expense", 404) EXCEPT
                         !.detail = "Expense not found"]
           /\ UNCHANGED <<clock, recurring, expenses, auth_budget_vars>>
      ELSE LET e == CHOOSE e \in found : TRUE
               assigned == [e EXCEPT
                        !.amount      = IF data.amount      # None THEN data.amount[1]   ELSE @,
                        !.category    = IF data.category    # None THEN data.category[1] ELSE @,
                        !.description = IF data.description # None THEN data.description ELSE @]
               e1 == [assigned EXCEPT
                        !.date = IF data.date # None
                                 THEN ColumnDateTime(data.date[1], data.tzinfo) ELSE @]
           IN  IF data.date # None /\ data.tzinfo # None
               THEN /\ expenses' = SessionClose(expenses, (expenses \ {e}) \cup {assigned})
                    /\ last' = [Response("update_expense", 500) EXCEPT
                                  !.detail = "Internal Server Error"]
                    /\ UNCHANGED <<clock, recurring, auth_budget_vars>>
               ELSE IF data.date # None /\ data.date[1] > clock
               THEN /\ expenses' = SessionClose(expenses, (expenses \ {e}) \cup {assigned})
                    /\ last' = [Response("update_expense", 400) EXCEPT
                                  !.detail = "Expense date cannot be in the future"]
                    /\ UNCHANGED <<clock, recurring, auth_budget_vars>>
               ELSE /\ expenses' = (expenses \ {e}) \cup {e1}
                    /\ last' = [Response("update_expense", 200) EXCEPT !.rows = {e1}]
                    /\ UNCHANGED <<clock, recurring, auth_budget_vars>>

\* two decimal digits of a number below 100
TwoDigits(n) == (IF n < 10 THEN "0" ELSE "") \o ToString(n)

\* datetime.isoformat() of an instant on the hour: 2024-03-31T12:00:00
IsoFormat(t) ==
  LET d == Civil(t \div 24)
  IN  ToString(d.year) \o "-" \o TwoDigits(d.month) \o "-" \o TwoDigits(d.day) \o "T"
        \o TwoDigits(t % 24) \o ":00:00"

\* str() of a float amount: the decimals without trailing zeros, at least one
FloatStr(amount) ==
  LET m == amount % 1000
      decimals == IF m = 0 THEN "0"
                  ELSE IF m % 100 = 0 THEN ToString(m \div 100)
                  ELSE IF m % 10 = 0 THEN TwoDigits(m \div 10)
                  ELSE (IF m < 100 THEN "0" ELSE "") \o TwoDigits(m)
  IN  ToString(amount \div 1000) \o "." \o decimals

\* one line of the CSV export: date, category, amount, description or ""
CsvLine(e) ==
  <<IsoFormat(e.date), e.category, FloatStr(e.amount),
    IF Truthy(e.description) THEN e.description[1] ELSE "">>

\* GET /api/expenses/export/csv: the header line and one line per expense, in the
\* order in which the query returns them
ExportToCsv(u, order) ==
  LET rows == {e \in expenses : e.owner_id = u}
  IN  /\ order \in Orders(rows)
      /\ last' = [Response("export_csv", 200) EXCEPT
                    !.rows = rows,
                    !.csv = <<<<"Date", "Category", "Amount", "Description">>>> \o
                            [i \in 1..Len(order) |-> CsvLine(order[i])]]
      /\ UNCHANGED <<clock, recurring, expenses, auth_budget_vars>>

(***************************************************************************)
(* Analytics: app/routers/analytics.py                                     *)
(***************************************************************************)
\* round(x, 2) for x >= 0: the nearest hundredth, a tie going to the even one
Round2(x) ==
  LET q == x \div 10
      r == x % 10
  IN  IF r < 5 THEN 10 * q
      ELSE IF r > 5 THEN 10 * (q + 1)
      ELSE IF q % 2 = 0 THEN 10 * q ELSE 10 * (q + 1)

\* WindowStart with months of 31 days
WindowStart_31(now, months) == now - Days(31 * months)

\* start_date = now - timedelta(days=30 * months)
WindowStart(now, months) == now - Days(30 * months)

\* SummaryExpenses without the owner filter
SummaryExpenses_AnyOwner(u, months, now) ==
  {e \in expenses : e.date >= WindowStart(now, months)}

\* the expenses the summary is computed from
SummaryExpenses(u, months, now) ==
  {e \in expenses : e.owner_id = u /\ e.date >= WindowStart(now, months)}

\* round(n / d) for n >= 0, d > 0: the nearest integer, a tie going to the even one
RoundRatio(n, d) ==
  LET q == n \div d
      r == n % d
  IN  IF 2 * r < d THEN q
      ELSE IF 2 * r > d THEN q + 1
      ELSE IF q % 2 = 0 THEN q ELSE q + 1

\* Percentage computed from the rounded total and the rounded denominator
Percentage_OfRounded(total, denominator) ==
  IF Round2(denominator) > 0
  THEN LET h == Round2(total) * 100
       IN  (h \div Round2(denominator)) * 100 +
           RoundRatio((h % Round2(denominator)) * 100, Round2(denominator))
  ELSE 0

\* round((total / denominator * 100) if denominator > 0 else 0, 2), in hundredths
\* of a percent: total * 10000 / denominator by long division, two digits at a
\* time, so that no intermediate product leaves the range of the integers
Percentage(total, denominator) ==
  IF denominator > 0
  THEN LET h == total * 100
       IN  (h \div denominator) * 100 + RoundRatio((h % denominator) * 100, denominator)
  ELSE 0

\* the CategorySummary of one category over rows
CategorySummary(category, rows, denominator) ==
  LET of == {e \in rows : e.category = category}
  IN  [category |-> category, total |-> Round2(SumAmounts(of)),
       percentage |-> Percentage(SumAmounts(of), denominator),
       count |-> Cardinality(of)]

\* ByCategory with an entry for every category of the enumeration
ByCategory_EveryCategory(rows) ==
  [i \in 1..Len(CategoryEnum) |->
     CategorySummary(CategoryEnum[i], rows, SumAmounts(rows))]

\* for category in CategoryEnum: if category in category_spending: append
ByCategory(rows) ==
  LET category_spending == {e.category : e \in rows}
      present == SelectSeq(CategoryEnum, LAMBDA c : c \in category_spending)
      total_spending == SumAmounts(rows)
  IN  [i \in 1..Len(present) |-> CategorySummary(present[i], rows, total_spending)]

\* now.replace(day=1, hour=0, minute=0, second=0, microsecond=0)
MonthStart(now) == DateTime(Year(now), Month(now), 1, 0)

\* t.strftime("%Y-%m"), for years of four digits
StrftimeYm(t) ==
  LET d == Civil(t \div 24)
  IN  ToString(d.year) \o "-" \o (IF d.month < 10 THEN "0" ELSE "") \o ToString(d.month)

\* MonthlyTrends with buckets that include their end
MonthlyTrends_EndInclusive(rows, months, now) ==
  [i \in 1..months |->
     LET month_num == months - (i - 1)
         month_start == now - Days(30 * month_num)
         month_end == month_start + Days(30)
         month_expenses == {e \in rows : month_start <= e.date /\ e.date <= month_end}
     IN  [month |-> StrftimeYm(month_start),
          total |-> Round2(SumAmounts(month_expenses)),
          by_category |-> ByCategory(month_expenses)]]

\* for i in range(months): the MonthlySummary of the i-th 30-day bucket (the
\* entries of a sequence are numbered from 1)
MonthlyTrends(rows, months, now) ==
  [i \in 1..months |->
     LET month_num == months - (i - 1)
         month_start == now - Days(30 * month_num)
         month_end == month_start + Days(30)
         month_expenses == {e \in rows : month_start <= e.date /\ e.date < month_end}
     IN  [month |-> StrftimeYm(month_start),
          total |-> Round2(SumAmounts(month_expenses)),
          by_category |-> ByCategory(month_expenses)]]

\* the response of get_analytics_summary (months: Query(12, ge=1, le=60))
SummaryResponse(u, months) ==
  LET now == clock
      rows == SummaryExpenses(u, months, now)
      total_spending == SumAmounts(rows)
      current_month_expenses == {e \in rows : e.date >= MonthStart(now)}
  IN  IF months < 1 \/ months > 60
      THEN [Response("summary", 422) EXCEPT !.user = u, !.months = months]
      ELSE [Response("summary", 200) EXCEPT
              !.user = u, !.months = months,
              !.total_spending = Round2(total_spending),
              !.current_month_spending = Round2(SumAmounts(current_month_expenses)),
              !.by_category = ByCategory(rows),
              !.monthly_trends = MonthlyTrends(rows, months, now),
              !.rows = rows]

\* GetAnalyticsSummary that removes the expenses it has summarised
GetAnalyticsSummary_Consuming(u, months) ==
  /\ last' = SummaryResponse(u, months)
  /\ expenses' = expenses \ last'.rows
  /\ UNCHANGED <<clock, recurring, auth_budget_vars>>

\* GET /api/analytics/summary?months=...
GetAnalyticsSummary(u, months) ==
  /\ last' = SummaryResponse(u, months)
  /\ UNCHANGED <<clock, recurring, expenses, auth_budget_vars>>

\* GET /api/analytics/by-category: the breakdown of all of the owner's expenses
GetByCategory(u) ==
  LET rows == {e \in expenses : e.owner_id = u}
  IN  /\ last' = [Response("by_category", 200) EXCEPT
                    !.user = u, !.rows = rows,
                    !.by_category = ByCategory(rows),
                    !.total_spending = Round2(SumAmounts(rows))]
      /\ UNCHANGED <<clock, recurring, expenses, auth_budget_vars>>

\* GET /api/analytics/by-month?months=...: the expenses of the window are summed
\* by the year-month of their own date, and each bucket reports the sum found
\* under the year-month of its start
GetByMonth(u, months) ==
  LET now == clock
      rows == SummaryExpenses(u, months, now)
      monthly_data(month_str) == SumAmounts({e \in rows : StrftimeYm(e.date) = month_str})
  IN  /\ last' = IF months < 1 \/ months > 60
                 THEN [Response("by_month", 422) EXCEPT !.user = u, !.months = months]
                 ELSE [Response("by_month", 200) EXCEPT
                         !.user = u, !.months = months, !.rows = rows,
                         !.monthly_trends =
                            [i \in 1..months |->
                               LET month_str == StrftimeYm(now - Days(30 * (months - (i - 1))))
                               IN  [month |-> month_str,
                                    total |-> Round2(monthly_data(month_str))]]]
      /\ UNCHANGED <<clock, recurring, expenses, auth_budget_vars>>

(***************************************************************************)
(* Recurring expenses: app/routers/recurring.py                            *)
(***************************************************************************)
\* a new row of recurring_expenses: is_active defaults to True, last_generated to
\* NULL, updated_at to utcnow()
RecurringRow(id, u, amount, category, description, frequency, now) ==
  [id |-> id, owner_id |-> u, amount |-> amount, category |-> category,
   description |-> description, frequency |-> frequency, is_active |-> TRUE,
   last_generated |-> None, updated_at |-> now]

\* POST /api/recurring-expenses
CreateRecurring(u, amount, category, description, frequency) ==
  /\ Cardinality(recurring) < MaxRecurring
  /\ IF amount <= 0
     THEN /\ last' = Response("create_recurring", 422)
          /\ UNCHANGED <<clock, recurring, expenses, auth_budget_vars>>
     ELSE /\ recurring' = recurring \cup
               {RecurringRow(NewId(recurring), u, amount, category, description,
                             frequency, clock)}
          /\ last' = Response("create_recurring", 200)
          /\ UNCHANGED <<clock, expenses, auth_budget_vars>>

\* the fields of RecurringExpenseUpdate that are not None overwrite the row's
ApplyRecurringUpdate(r, data) ==
  LET r1 == [r EXCEPT
               !.amount      = IF data.amount      # None THEN data.amount[1]      ELSE @,
               !.category    = IF data.category    # None THEN data.category[1]    ELSE @,
               !.description = IF data.description # None THEN data.description    ELSE @,
               !.frequency   = IF data.frequency   # None THEN data.frequency[1]   ELSE @,
               !.is_active   = IF data.is_active   # None THEN data.is_active[1]   ELSE @]
  IN  \* onupdate=datetime.utcnow runs when the commit emits an UPDATE for the row
      IF r1 # r THEN [r1 EXCEPT !.updated_at = clock] ELSE r

\* GET /api/recurring-expenses
GetRecurringExpenses(u) ==
  /\ last' = [Response("get_recurring_expenses", 200) EXCEPT
                !.rows = {r \in recurring : r.owner_id = u}]
  /\ UNCHANGED <<clock, recurring, expenses, auth_budget_vars>>

\* GET /api/recurring-expenses/{recurring_id}
GetRecurringExpense(u, rid) ==
  LET found == {r \in recurring : r.id = rid /\ r.owner_id = u}
  IN  /\ last' = IF found = {}
                 THEN [Response("get_recurring_expense", 404) EXCEPT
                         !.detail = "Recurring expense not found"]
                 ELSE [Response("get_recurring_expense", 200) EXCEPT !.rows = found]
      /\ UNCHANGED <<clock, recurring, expenses, auth_budget_vars>>

\* PUT /api/recurring-expenses/{recurring_id}
UpdateRecurring(u, rid, data) ==
  LET found == {r \in recurring : r.id = rid /\ r.owner_id = u}
  IN  IF found = {}
      THEN /\ last' = Response("update_recurring", 404)
           /\ UNCHANGED <<clock, recurring, expenses, auth_budget_vars>>
      ELSE LET r == CHOOSE r \in found : TRUE
           IN  /\ recurring' = (recurring \ {r}) \cup {ApplyRecurringUpdate(r, data)}
               /\ last' = Response("update_recurring", 200)
               /\ UNCHANGED <<clock, expenses, auth_budget_vars>>

\* DELETE /api/recurring-expenses/{recurring_id}
DeleteRecurring(u, rid) ==
  LET found == {r \in recurring : r.id = rid /\ r.owner_id = u}
  IN  IF found = {}
      THEN /\ last' = Response("delete_recurring", 404)
           /\ UNCHANGED <<clock, recurring, expenses, auth_budget_vars>>
      ELSE /\ recurring' = recurring \ found
           /\ last' = Response("delete_recurring", 200)
           /\ UNCHANGED <<clock, expenses, auth_budget_vars>>

\* ShouldGenerate with the monthly rule comparing the month number alone
ShouldGenerate_MonthOnly(frequency, last_generated_col, now) ==
  LET last_generated == IF last_generated_col # None THEN last_generated_col[1]
                        ELSE DateTime(1970, 1, 1, 0)
  IN  CASE frequency = "daily"   -> TimedeltaDays(now, last_generated) >= 1
        [] frequency = "weekly"  -> TimedeltaDays(now, last_generated) >= 7
        [] frequency = "monthly" -> Month(now) # Month(last_generated)
        [] frequency = "yearly"  -> Year(now) # Year(last_generated)
        [] OTHER                 -> FALSE

\* ShouldGenerate with the daily and weekly rules strict (> instead of >=)
ShouldGenerate_Strict(frequency, last_generated_col, now) ==
  LET last_generated == IF last_generated_col # None THEN last_generated_col[1]
                        ELSE DateTime(1970, 1, 1, 0)
  IN  CASE frequency = "daily"   -> TimedeltaDays(now, last_generated) > 1
        [] frequency = "weekly"  -> TimedeltaDays(now, last_generated) > 7
        [] frequency = "monthly" -> \/ Month(now) # Month(last_generated)
                                    \/ Year(now) # Year(last_generated)
        [] frequency = "yearly"  -> Year(now) # Year(last_generated)
        [] OTHER                 -> FALSE

\* ShouldGenerate with the daily rule on calendar dates (now.date() - last.date())
ShouldGenerate_CalendarDay(frequency, last_generated_col, now) ==
  LET last_generated == IF last_generated_col # None THEN last_generated_col[1]
                        ELSE DateTime(1970, 1, 1, 0)
  IN  CASE frequency = "daily"   -> DateOf(now) - DateOf(last_generated) >= 1
        [] frequency = "weekly"  -> TimedeltaDays(now, last_generated) >= 7
        [] frequency = "monthly" -> \/ Month(now) # Month(last_generated)
                                    \/ Year(now) # Year(last_generated)
        [] frequency = "yearly"  -> Year(now) # Year(last_generated)
        [] OTHER                 -> FALSE

\* ShouldGenerate with the yearly rule on elapsed days
ShouldGenerate_YearElapsed(frequency, last_generated_col, now) ==
  LET last_generated == IF last_generated_col # None THEN last_generated_col[1]
                        ELSE DateTime(1970, 1, 1, 0)
  IN  CASE frequency = "daily"   -> TimedeltaDays(now, last_generated) >= 1
        [] frequency = "weekly"  -> TimedeltaDays(now, last_generated) >= 7
        [] frequency = "monthly" -> \/ Month(now) # Month(last_generated)
                                    \/ Year(now) # Year(last_generated)
        [] frequency = "yearly"  -> TimedeltaDays(now, last_generated) >= 365
        [] OTHER                 -> FALSE

\* the due decision of process_recurring_expenses for one record
ShouldGenerate(frequency, last_generated_col, now) ==
  LET last_generated == IF last_generated_col # None THEN last_generated_col[1]
                        ELSE DateTime(1970, 1, 1, 0)
  IN  CASE frequency = "daily"   -> TimedeltaDays(now, last_generated) >= 1
        [] frequency = "weekly"  -> TimedeltaDays(now, last_generated) >= 7
        [] frequency = "monthly" -> \/ Month(now) # Month(last_generated)
                                    \/ Year(now) # Year(last_generated)
        [] frequency = "yearly"  -> Year(now) # Year(last_generated)
        [] OTHER                 -> FALSE

\* the Expense built for a record that fires
NewExpense(rows, r, now) ==
  [id |-> NewId(rows), owner_id |-> r.owner_id, amount |-> r.amount,
   category |-> r.category,
   description |-> IF Truthy(r.description) THEN r.description
                   ELSE Some("Recurring: " \o Str(r.description)),
   date |-> now]

\* FireRecord with a commit after db.add as well: the expense is written before
\* last_generated is set
FireRecord_CommitAfterAdd(st, r, now, commit_raises) ==
  LET new_expense == NewExpense(st.exp, r, now)
  IN  IF commit_raises
      THEN [st EXCEPT !.exp = @ \cup {new_expense}, !.failed = TRUE]
      ELSE [st EXCEPT !.exp   = @ \cup {new_expense},
                      !.rec   = (@ \ {r}) \cup
                                  {[r EXCEPT !.last_generated = Some(now),
                                             !.updated_at = now]},
                      !.count = @ + 1,
                      !.evals = @ \cup {[rec |-> r, fired |-> TRUE,
                                         eid |-> new_expense.id]}]

\* FireRecord that also deactivates the record it fired
FireRecord_Deactivate(st, r, now, commit_raises) ==
  LET new_expense == NewExpense(st.exp, r, now)
  IN  IF commit_raises
      THEN [st EXCEPT !.failed = TRUE]
      ELSE [st EXCEPT !.exp   = @ \cup {new_expense},
                      !.rec   = (@ \ {r}) \cup
                                  {[r EXCEPT !.last_generated = Some(now),
                                             !.updated_at = now,
                                             !.is_active = FALSE]},
                      !.count = @ + 1,
                      !.evals = @ \cup {[rec |-> r, fired |-> TRUE,
                                         eid |-> new_expense.id]}]

\* FireRecord that leaves last_generated as it was
FireRecord_NoStamp(st, r, now, commit_raises) ==
  LET new_expense == NewExpense(st.exp, r, now)
  IN  IF commit_raises
      THEN [st EXCEPT !.failed = TRUE]
      ELSE [st EXCEPT !.exp   = @ \cup {new_expense},
                      !.count = @ + 1,
                      !.evals = @ \cup {[rec |-> r, fired |-> TRUE,
                                         eid |-> new_expense.id]}]

\* db.add(new_expense); recurring.last_generated = now; db.commit(); count += 1.
\* st is what the database holds so far; when the commit raises, the session is
\* closed without it and neither change is written.
FireRecord(st, r, now, commit_raises) ==
  LET new_expense == NewExpense(st.exp, r, now)
  IN  IF commit_raises
      THEN [st EXCEPT !.failed = TRUE]
      ELSE [st EXCEPT !.exp   = @ \cup {new_expense},
                      !.rec   = (@ \ {r}) \cup
                                  {[r EXCEPT !.last_generated = Some(now),
                                             !.updated_at = now]},
                      !.count = @ + 1,
                      !.evals = @ \cup {[rec |-> r, fired |-> TRUE,
                                         eid |-> new_expense.id]}]

\* the loop over the queried records, from position i on
RECURSIVE ProcessPass(_, _, _, _, _)
ProcessPass(order, i, st, now, failAt) ==
  IF i > Len(order) \/ st.failed THEN st
  ELSE LET r == order[i]
           st1 == IF ShouldGenerate(r.frequency, r.last_generated, now)
                  THEN FireRecord(st, r, now, i = failAt)
                  ELSE [st EXCEPT !.evals = @ \cup {[rec |-> r, fired |-> FALSE,
                                                    eid |-> 0]}]
       IN  ProcessPass(order, i + 1, st1, now, failAt)

\* ActiveRecurring without the is_active filter
ActiveRecurring_All(rows) == rows

\* the records the pass iterates over
ActiveRecurring(rows) == {r \in rows : r.is_active = TRUE}

\* the body of process_recurring_expenses. order is the order in which the query
\* returns the rows; failAt > 0 is the position of the record whose commit raises.
ProcessBody(op, order, failAt) ==
  LET now == clock
      res == ProcessPass(order, 1,
                         [exp |-> expenses, rec |-> recurring, count |-> 0,
                          evals |-> {}, failed |-> FALSE], now, failAt)
  IN  /\ order \in Orders(ActiveRecurring(recurring))
      /\ failAt \in 0..Len(order)
      /\ failAt > 0 =>
           ShouldGenerate(order[failAt].frequency, order[failAt].last_generated, now)
      /\ Cardinality(res.exp) <= MaxExpenses
      /\ expenses' = res.exp
      /\ recurring' = res.rec
      /\ last' = [Response(op, IF res.failed THEN 500 ELSE 200) EXCEPT
                    !.count = IF res.failed THEN 0 ELSE res.count,
                    !.evals = res.evals]
      /\ UNCHANGED <<clock, auth_budget_vars>>

\* POST /api/recurring-expenses/process
ProcessRecurring(order, failAt) == ProcessBody("process", order, failAt)

\* POST /api/recurring-expenses/generate-today
GenerateToday(order, failAt) == ProcessBody("generate_today", order, failAt)

(***************************************************************************)
(* The pass served by several workers on one database: a pass is between   *)
(* its query and its return while other passes are served.  The session of *)
(* a pass holds the rows its query loaded; its first commit expires them,  *)
(* so that from then on a row is read again when the loop comes to it.     *)
(***************************************************************************)
\* now = datetime.utcnow(); recurring_expenses = db.query(...).all(), by worker w
PassQuery(op, w, order) ==
  /\ ~\E p \in passes : p.worker = w
  /\ order \in Orders(ActiveRecurring(recurring))
  /\ passes' = passes \cup
       {[worker |-> w, op |-> op, now |-> clock, rows |-> order, i |-> 1, count |-> 0,
         expired |-> FALSE]}
  /\ UNCHANGED <<clock, recurring, expenses, users, budgets, creating, token_blacklist,
                 last>>

\* one turn of the loop of a pass: the due decision on the row as the session
\* holds it and, for a row that is due, db.add, last_generated = now and the
\* commit, whose UPDATE sets last_generated and updated_at of the row in the
\* table.  A row that is gone from the table when it is read again or updated
\* ends the pass with a 500.
PassTurn(p) ==
  /\ p \in passes
  /\ p.i <= Len(p.rows)
  /\ LET current == {r \in recurring : r.id = p.rows[p.i].id}
         r == IF p.expired /\ current # {} THEN CHOOSE r \in current : TRUE
              ELSE p.rows[p.i]
     IN  IF p.expired /\ current = {}
         THEN /\ passes' = passes \ {p}
              /\ last' = Response(p.op, 500)
              /\ UNCHANGED <<recurring, expenses>>
         ELSE IF ShouldGenerate(r.frequency, r.last_generated, p.now)
         THEN IF current = {}
              THEN /\ passes' = passes \ {p}
                   /\ last' = Response(p.op, 500)
                   /\ UNCHANGED <<recurring, expenses>>
              ELSE /\ Cardinality(expenses) < MaxExpenses
                   /\ expenses' = expenses \cup {NewExpense(expenses, r, p.now)}
                   /\ recurring' = (recurring \ current) \cup
                                     {[(CHOOSE c \in current : TRUE) EXCEPT
                                         !.last_generated = Some(p.now),
                                         !.updated_at = clock]}
                   /\ passes' = (passes \ {p}) \cup
                                  {[p EXCEPT !.i = @ + 1, !.count = @ + 1,
                                             !.expired = TRUE]}
                   /\ last' = last
         ELSE /\ passes' = (passes \ {p}) \cup {[p EXCEPT !.i = @ + 1]}
              /\ UNCHANGED <<recurring, expenses, last>>
  /\ UNCHANGED <<clock, users, budgets, creating, token_blacklist>>

\* the return of a pass whose loop has ended
PassReturn(p) ==
  /\ p \in passes
  /\ p.i > Len(p.rows)
  /\ passes' = passes \ {p}
  /\ last' = [Response(p.op, 200) EXCEPT !.count = p.count, !.user = p.worker]
  /\ UNCHANGED <<clock, recurring, expenses, users, budgets, creating, token_blacklist>>

\* the clock moves on to a later instant of S
Tick(S) == /\ \E t \in S : t > clock /\ clock' = t
           /\ UNCHANGED <<recurring, expenses, auth_budget_vars, last>>

(***************************************************************************)
(* The due decision over a calendar of instants (SpecDue).                 *)
(***************************************************************************)
\* instants the clock visits: around the epoch, a day, a week, a month end,
\* a year end, and the same dates one year on
DueInstants ==
  {DateTime(1970, 1, 1, 0),   DateTime(1970, 1, 1, 23),  DateTime(1970, 1, 2, 0),
   DateTime(1970, 1, 8, 0),   DateTime(1970, 2, 1, 0),   DateTime(1971, 1, 1, 0),
   DateTime(2024, 1, 31, 23), DateTime(2024, 2, 1, 1),   DateTime(2024, 2, 1, 22),
   DateTime(2024, 2, 1, 23),  DateTime(2024, 2, 2, 0),   DateTime(2024, 2, 7, 22),
   DateTime(2024, 2, 7, 23),  DateTime(2024, 2, 28, 0),  DateTime(2024, 6, 1, 0),
   DateTime(2024, 12, 31, 0), DateTime(2025, 1, 1, 0),   DateTime(2025, 1, 31, 23),
   DateTime(2025, 2, 1, 1)}

\* one record of any frequency has been created; the clock and the processor run
InitDue ==
  /\ clock \in DueInstants
  /\ \E f \in FrequencyEnum :
       recurring = {RecurringRow(1, 1, 10000, "Food", Some("Bus pass"), f, clock)}
  /\ expenses = {}
  /\ TwoAccounts
  /\ last = Response("create_recurring", 200)

NextDue ==
  \/ Tick(DueInstants)
  \/ \E order \in Orders(ActiveRecurring(recurring)) : ProcessRecurring(order, 0)
  \/ \E order \in Orders(ActiveRecurring(recurring)) : GenerateToday(order, 0)

SpecDue == InitDue /\ [][NextDue]_vars

(***************************************************************************)
(* The service with two users (Spec).                                      *)
(***************************************************************************)
\* the instants of Init and Tick: 23:00 on the last day of a month, and two
\* hours later

Users == {1, 2}

NoUpdate ==
  [amount |-> None, category |-> None, description |-> None, frequency |-> None,
   is_active |-> None]

\* request bodies of PUT /api/recurring-expenses/{id}
RecurringUpdates ==
  {[NoUpdate EXCEPT !.is_active = Some(FALSE)],
   [NoUpdate EXCEPT !.is_active = Some(TRUE)]}

Init ==
  /\ clock \in {DateTime(2024, 1, 31, 23), DateTime(2024, 2, 1, 1)}
  /\ recurring = {}
  /\ expenses = {}
  /\ TwoAccounts
  /\ last = Response("start", 200)

Next ==
  \* requests of POST /api/recurring-expenses: the user and the body; the last
  \* body fails validation
  LET RecurringRequests ==
        {[user |-> 1, amount |-> 10000, category |-> "Food", description |-> None,
          frequency |-> "daily"],
         [user |-> 2, amount |-> 25000, category |-> "Transport",
          description |-> Some("Bus pass"), frequency |-> "monthly"],
         [user |-> 1, amount |-> 0, category |-> "Food", description |-> Some(""),
          frequency |-> "weekly"]}
  IN
      \/ Tick({DateTime(2024, 1, 31, 23), DateTime(2024, 2, 1, 1)})
      \/ \E q \in RecurringRequests :
           CreateRecurring(q.user, q.amount, q.category, q.description, q.frequency)
      \/ \E u \in Users, rid \in 1..MaxRecurring, d \in RecurringUpdates :
           UpdateRecurring(u, rid, d)
      \/ \E order \in Orders(ActiveRecurring(recurring)), failAt \in 0..MaxRecurring :
           ProcessRecurring(order, failAt)

Spec == Init /\ [][Next]_vars

(***************************************************************************)
(* The analytics summary over a user's expenses (SpecAnalytics).           *)
(***************************************************************************)
\* noon of 2024-03-31, and one hour later
AnalyticsNow == DateTime(2024, 3, 31, 12)
AnalyticsInstants == {AnalyticsNow, AnalyticsNow + 1}

InitAnalytics ==
  /\ clock \in AnalyticsInstants
  /\ recurring = {}
  /\ expenses = {}
  /\ TwoAccounts
  /\ last = Response("start", 200)

NextAnalytics ==
  \* requests of POST /api/expenses: on the edge of the 30-day window, one hour
  \* before it (three decimals in the amount), now, another owner's, on the edge
  \* of the 60-month window, and one hour after AnalyticsNow
  LET ExpenseRequests ==
        {[user |-> 1, amount |-> 50000, category |-> "Food",
          date |-> AnalyticsNow - Days(30)],
         [user |-> 1, amount |-> 5001, category |-> "Transport",
          date |-> AnalyticsNow - Days(30) - 1],
         [user |-> 1, amount |-> 20000, category |-> "Food", date |-> AnalyticsNow],
         [user |-> 2, amount |-> 70000, category |-> "Food",
          date |-> AnalyticsNow - Days(1)],
         [user |-> 1, amount |-> 30000, category |-> "Other",
          date |-> AnalyticsNow - Days(30 * 60)],
         [user |-> 2, amount |-> 1002, category |-> "Other", date |-> AnalyticsNow + 1]}
  IN
      \/ Tick(AnalyticsInstants)
      \/ \E q \in ExpenseRequests :
           CreateExpense(q.user, q.amount, q.category, None, q.date, None)
      \/ \E u \in Users, months \in {0, 1, 2, 60, 61} : GetAnalyticsSummary(u, months)

SpecAnalytics == InitAnalytics /\ [][NextAnalytics]_vars

(***************************************************************************)
(* The summary over amounts of three decimals (SpecRounding).              *)
(***************************************************************************)
NextRounding ==
  \* requests of POST /api/expenses by user 1: 5.004 in three categories on the
  \* day before AnalyticsNow, and 5.004 31 days before it
  LET RoundingRequests ==
        {[user |-> 1, amount |-> 5004, category |-> "Food",
          date |-> AnalyticsNow - Days(1)],
         [user |-> 1, amount |-> 5004, category |-> "Transport",
          date |-> AnalyticsNow - Days(1)],
         [user |-> 1, amount |-> 5004, category |-> "Other",
          date |-> AnalyticsNow - Days(1)],
         [user |-> 1, amount |-> 5004, category |-> "Food",
          date |-> AnalyticsNow - Days(31)]}
  IN
      \/ \E q \in RoundingRequests :
           CreateExpense(q.user, q.amount, q.category, None, q.date, None)
      \/ \E eid \in 1..MaxExpenses : DeleteExpense(1, eid)
      \/ \E months \in {1, 2} : GetAnalyticsSummary(1, months)

SpecRounding == InitAnalytics /\ [][NextRounding]_vars

(***************************************************************************)
(* Budgets: app/routers/budgets.py                                         *)
(***************************************************************************)
\* the budgets of u for a category
BudgetOf(u, category) == {b \in budgets : b.owner_id = u /\ b.category = category}

\* a row of table budgets (created_at and updated_at are not part of the model)
BudgetRow(id, u, category, monthly_limit) ==
  [id |-> id, owner_id |-> u, category |-> category, monthly_limit |-> monthly_limit]

\* UniqueOwnerCategory for a table without the constraint
UniqueOwnerCategory_Off(rows, b) == TRUE

\* UniqueConstraint("owner_id", "category"): the table accepts the INSERT of b
UniqueOwnerCategory(rows, b) ==
  \A r \in rows : ~(r.owner_id = b.owner_id /\ r.category = b.category)

\* GET /api/budgets
GetBudgets(u) ==
  /\ last' = [Response("get_budgets", 200) EXCEPT
                !.rows = {b \in budgets : b.owner_id = u}]
  /\ UNCHANGED <<clock, recurring, expenses, auth_budget_vars>>

\* POST /api/budgets up to the existence query (BudgetCreate: monthly_limit > 0):
\* the request is answered 422 or 400, or goes on to its insert
CreateBudgetQuery(u, category, monthly_limit) ==
  IF monthly_limit <= 0
  THEN /\ last' = Response("create_budget", 422)
       /\ UNCHANGED <<clock, recurring, expenses, auth_budget_vars>>
  ELSE IF BudgetOf(u, category) # {}
  THEN /\ last' = [Response("create_budget", 400) EXCEPT
                     !.user = u, !.detail = "Budget already exists for " \o category]
       /\ UNCHANGED <<clock, recurring, expenses, auth_budget_vars>>
  ELSE /\ creating' = creating \cup
           {[owner_id |-> u, category |-> category, monthly_limit |-> monthly_limit]}
       /\ UNCHANGED <<clock, recurring, expenses, users, budgets, token_blacklist, passes, last>>

\* POST /api/budgets from db.add on: the commit raises IntegrityError when the
\* unique constraint rejects the INSERT, and nothing is written
CreateBudgetCommit(c) ==
  LET db_budget == BudgetRow(NewId(budgets), c.owner_id, c.category, c.monthly_limit)
  IN  /\ c \in creating
      /\ creating' = creating \ {c}
      /\ IF UniqueOwnerCategory(budgets, db_budget)
         THEN /\ budgets' = budgets \cup {db_budget}
              /\ last' = [Response("create_budget", 200) EXCEPT
                            !.user = c.owner_id, !.rows = {db_budget}]
         ELSE /\ budgets' = budgets
              /\ last' = [Response("create_budget", 500) EXCEPT !.user = c.owner_id]
      /\ UNCHANGED <<clock, recurring, expenses, users, token_blacklist, passes>>

\* POST /api/budgets served without another request in between
CreateBudget(u, category, monthly_limit) ==
  LET db_budget == BudgetRow(NewId(budgets), u, category, monthly_limit)
  IN  IF monthly_limit <= 0
      THEN /\ last' = Response("create_budget", 422)
           /\ UNCHANGED <<clock, recurring, expenses, auth_budget_vars>>
      ELSE IF BudgetOf(u, category) # {}
      THEN /\ last' = [Response("create_budget", 400) EXCEPT
                         !.user = u, !.detail = "Budget already exists for " \o category]
           /\ UNCHANGED <<clock, recurring, expenses, auth_budget_vars>>
      ELSE /\ budgets' = budgets \cup {db_budget}
           /\ last' = [Response("create_budget", 200) EXCEPT
                         !.user = u, !.rows = {db_budget}]
           /\ UNCHANGED <<clock, recurring, expenses, users, creating, token_blacklist, passes>>

\* PUT /api/budgets/{category} (BudgetUpdate: monthly_limit > 0)
UpdateBudget(u, category, monthly_limit) ==
  LET found == BudgetOf(u, category)
  IN  IF monthly_limit <= 0
      THEN /\ last' = Response("update_budget", 422)
           /\ UNCHANGED <<clock, recurring, expenses, auth_budget_vars>>
      ELSE IF found = {}
      THEN /\ last' = [Response("update_budget", 404) EXCEPT !.detail = "Budget not found"]
           /\ UNCHANGED <<clock, recurring, expenses, auth_budget_vars>>
      ELSE LET b == CHOOSE b \in found : TRUE
               b1 == [b EXCEPT !.monthly_limit = monthly_limit]
           IN  /\ budgets' = (budgets \ {b}) \cup {b1}
               /\ last' = [Response("update_budget", 200) EXCEPT !.rows = {b1}]
               /\ UNCHANGED <<clock, recurring, expenses, users, creating, token_blacklist, passes>>

\* DELETE /api/budgets/{category}
DeleteBudget(u, category) ==
  LET found == BudgetOf(u, category)
  IN  IF found = {}
      THEN /\ last' = [Response("delete_budget", 404) EXCEPT !.detail = "Budget not found"]
           /\ UNCHANGED <<clock, recurring, expenses, auth_budget_vars>>
      ELSE /\ budgets' = budgets \ {CHOOSE b \in found : TRUE}
           /\ last' = Response("delete_budget", 200)
           /\ UNCHANGED <<clock, recurring, expenses, users, creating, token_blacklist, passes>>

(***************************************************************************)
(* Tokens and the current user: app/security.py                            *)
(* A token is a string; an Authorization header is None or the sequence of *)
(* its words and of the runs of whitespace (" ") between them.             *)
(***************************************************************************)
SECRET_KEY == "your-secret-key-change-in-production"
ACCESS_TOKEN_EXPIRE_MINUTES == 30
REFRESH_TOKEN_EXPIRE_MINUTES == 10080

\* the exp claim of a datetime: a time stamp, counted in minutes
Timestamp(t) == t * 60

\* jwt.encode(claims, key): the payload and the signature made with key
JwtEncode(claims, key) ==
  "jwt." \o (IF claims.sub # None THEN "sub=" \o claims.sub[1] \o ";" ELSE "")
         \o (IF claims.type # None THEN "type=" \o claims.type[1] \o ";" ELSE "")
         \o "exp=" \o ToString(claims.exp) \o "." \o key

\* create_access_token(data, expires_delta), expires_delta in minutes
CreateAccessToken(data, expires_delta) ==
  JwtEncode([data EXCEPT !.exp = Timestamp(clock) + expires_delta], SECRET_KEY)

\* the claims of the access token and of the refresh token made for a user id
AccessData(id) == [sub |-> Some(ToString(id)), type |-> None, exp |-> 0]
RefreshData(id) == [sub |-> Some(ToString(id)), type |-> Some("refresh"), exp |-> 0]

\* the payloads a token can carry: a sub claim (an account, or no numeral) or
\* none, issued at one of the instants of AnalyticsInstants for 30 minutes or
\* 7 days, or with exp 0
ClaimSets ==
  {[sub |-> sub, type |-> type, exp |-> exp] :
     sub \in {None, Some("1"), Some("2"), Some("3"), Some("abc")},
     type \in {None, Some("refresh")},
     exp \in {0} \cup {Timestamp(t) + d :
                         t \in AnalyticsInstants,
                         d \in {ACCESS_TOKEN_EXPIRE_MINUTES, REFRESH_TOKEN_EXPIRE_MINUTES}}}

\* the tokens that carry the signature of SECRET_KEY, each with its payload
SignedTokens == {<<JwtEncode(c, SECRET_KEY), c>> : c \in ClaimSets}

\* jwt.decode(token, SECRET_KEY): the payload, or None for a JWTError (not a
\* token, a signature made with another key, an exp claim in the past)
JwtDecode(token, now) ==
  LET payloads == {p \in SignedTokens : p[1] = token}
  IN  IF payloads = {} THEN None
      ELSE LET payload == (CHOOSE p \in payloads : TRUE)[2]
           IN  IF payload.exp < Timestamp(now) THEN None ELSE Some(payload)

\* authorization.split()
Split(authorization) == SelectSeq(authorization, LAMBDA w : w # " ")

\* scheme.lower(), for the words used as a scheme
Lower(w) ==
  CASE w = "Bearer" -> "bearer"
    [] w = "BEARER" -> "bearer"
    [] w = "Basic"  -> "basic"
    [] OTHER        -> w

\* int(user_id): None stands for the ValueError of a string that is no numeral
IntOf(str) ==
  LET n == {i \in 0..9 : ToString(i) = str}
  IN  IF n = {} THEN None ELSE Some(CHOOSE i \in n : TRUE)

\* the outcome of a dependency: an HTTPException, or the user id
Denied(status, detail) == [status |-> status, detail |-> detail, user_id |-> 0]
Admitted(user_id) == [status |-> 200, detail |-> "", user_id |-> user_id]

\* VerifyToken without the blacklist
VerifyToken_NoBlacklist(token) ==
  IF JwtDecode(token, clock) = None THEN Denied(401, "Invalid token")
  ELSE Admitted(0)

\* verify_token(token): status 200 stands for a returned payload
VerifyToken(token) ==
  IF token \in token_blacklist THEN Denied(401, "Token has been revoked")
  ELSE IF JwtDecode(token, clock) = None THEN Denied(401, "Invalid token")
  ELSE Admitted(0)

\* get_current_user(authorization); an int() that raises is answered 500
GetCurrentUser(authorization) ==
  IF authorization = None \/ authorization = Some(<<>>)
  THEN Denied(403, "Not authenticated")
  ELSE LET parts == Split(authorization[1])
       IN  IF Len(parts) # 2 THEN Denied(403, "Invalid authorization header")
           ELSE IF Lower(parts[1]) # "bearer"
           THEN Denied(403, "Invalid authentication scheme")
           ELSE LET payload == VerifyToken(parts[2])
                IN  IF payload.status # 200 THEN payload
                    ELSE LET user_id == JwtDecode(parts[2], clock)[1].sub
                         IN  IF user_id = None THEN Denied(401, "Invalid token")
                             ELSE IF IntOf(user_id[1]) = None
                             THEN Denied(500, "Internal Server Error")
                             ELSE Admitted(IntOf(user_id[1])[1])

\* the answer to a request whose dependency get_current_user raised: the body of
\* the handler does not run
Rejected(op, outcome, authorization) ==
  /\ last' = [Response(op, outcome.status) EXCEPT
                !.detail = outcome.detail, !.authorization = authorization]
  /\ UNCHANGED <<clock, recurring, expenses, auth_budget_vars>>

(***************************************************************************)
(* Accounts: app/routers/auth.py                                           *)
(***************************************************************************)

\* UserRegister: at least 8 characters, one of them upper case, one a digit
ValidPassword(password) ==
  /\ Len(password) >= 8
  /\ \E i \in 1..Len(password) :
       password[i] \in {"A", "B", "C", "D", "E", "F", "G", "H", "I", "J", "K", "L", "M",
                        "N", "O", "P", "Q", "R", "S", "T", "U", "V", "W", "X", "Y", "Z"}
  /\ \E i \in 1..Len(password) :
       password[i] \in {"0", "1", "2", "3", "4", "5", "6", "7", "8", "9"}

\* the Token response made for a user
TokenResponse(op, id) ==
  [Response(op, 200) EXCEPT
     !.user = id,
     !.access_token = Some(CreateAccessToken(AccessData(id), ACCESS_TOKEN_EXPIRE_MINUTES)),
     !.refresh_token = Some(CreateAccessToken(RefreshData(id), REFRESH_TOKEN_EXPIRE_MINUTES))]

\* the value of an EmailStr field: the address with its domain in lower case
\* (the local part keeps its case), for the addresses the clients send
EmailStr(v) ==
  CASE v = "c@EXAMPLE.COM" -> "c@example.com"
    [] v = "a@Example.com" -> "a@example.com"
    [] OTHER               -> v

\* POST /api/auth/register (the body has a well-formed email and no full_name)
Register(email, password) ==
  IF ~ValidPassword(password)
  THEN /\ last' = Response("register", 422)
       /\ UNCHANGED <<clock, recurring, expenses, auth_budget_vars>>
  ELSE IF \E x \in users : x.email = EmailStr(email)
  THEN /\ last' = [Response("register", 400) EXCEPT !.detail = "Email already registered"]
       /\ UNCHANGED <<clock, recurring, expenses, auth_budget_vars>>
  ELSE /\ users' = users \cup {UserRow(NewId(users), EmailStr(email), password)}
       /\ last' = TokenResponse("register", NewId(users))
       /\ UNCHANGED <<clock, recurring, expenses, budgets, creating, token_blacklist, passes>>

\* Login that tells an unknown email from a wrong password
Login_Telling(email, password) ==
  /\ last' = IF \E x \in users : /\ x.email = EmailStr(email)
                                  /\ VerifyPassword(password, x.hashed_password)
             THEN TokenResponse("login", (CHOOSE x \in users : x.email = EmailStr(email)).id)
             ELSE IF \E x \in users : x.email = EmailStr(email)
             THEN [Response("login", 401) EXCEPT !.detail = "Invalid email or password"]
             ELSE [Response("login", 401) EXCEPT !.detail = "User not found"]
  /\ UNCHANGED <<clock, recurring, expenses, auth_budget_vars>>

\* POST /api/auth/login
Login(email, password) ==
  /\ last' = IF \E x \in users : /\ x.email = EmailStr(email)
                                  /\ VerifyPassword(password, x.hashed_password)
             THEN TokenResponse("login", (CHOOSE x \in users : x.email = EmailStr(email)).id)
             ELSE [Response("login", 401) EXCEPT !.detail = "Invalid email or password"]
  /\ UNCHANGED <<clock, recurring, expenses, auth_budget_vars>>

\* LogoutBody that revokes every token signed for the user of the presented one
LogoutBody_WholeUser(user_id, authorization) ==
  /\ token_blacklist' = token_blacklist \cup {Split(authorization[1])[2]}
                           \cup {p[1] : p \in {q \in SignedTokens :
                                     q[2].sub = JwtDecode(Split(authorization[1])[2], clock)[1].sub}}
  /\ last' = [Response("logout", 200) EXCEPT
                !.user = user_id, !.authorization = authorization,
                !.detail = "Logged out successfully"]
  /\ UNCHANGED <<clock, recurring, expenses, users, budgets, creating, passes>>

\* the body of logout: the second word of the header goes on the blacklist
LogoutBody(user_id, authorization) ==
  /\ token_blacklist' = token_blacklist \cup {Split(authorization[1])[2]}
  /\ last' = [Response("logout", 200) EXCEPT
                !.user = user_id, !.authorization = authorization,
                !.detail = "Logged out successfully"]
  /\ UNCHANGED <<clock, recurring, expenses, users, budgets, creating, passes>>

\* POST /api/auth/logout, with user_id: int = Depends(get_current_user)
Logout(authorization) ==
  LET outcome == GetCurrentUser(authorization)
  IN  IF outcome.status = 200 THEN LogoutBody(outcome.user_id, authorization)
      ELSE Rejected("logout", outcome, authorization)

\* the body of get_current_user_info
GetMeBody(user_id) ==
  /\ last' = IF \E x \in users : x.id = user_id
             THEN [Response("me", 200) EXCEPT
                     !.user = user_id, !.rows = {x \in users : x.id = user_id}]
             ELSE [Response("me", 404) EXCEPT !.user = user_id, !.detail = "User not found"]
  /\ UNCHANGED <<clock, recurring, expenses, auth_budget_vars>>

\* GET /api/auth/me, with user_id: int = Depends(get_current_user)
GetMe(authorization) ==
  LET outcome == GetCurrentUser(authorization)
  IN  IF outcome.status = 200 THEN GetMeBody(outcome.user_id)
      ELSE Rejected("me", outcome, authorization)

\* EmailInUse that finds no one
EmailInUse_Never(email, user_id) == FALSE

\* db.query(User).filter(User.email == email, User.id != user_id).first()
EmailInUse(email, user_id) == \E x \in users : x.email = email /\ x.id # user_id

\* the body of update_profile: full_name is assigned before the email is looked
\* up, and the 400 leaves the session without a commit
UpdateProfileBody(user_id, authorization, full_name, email) ==
  LET found == {x \in users : x.id = user_id}
  IN  IF found = {}
      THEN /\ last' = [Response("update_profile", 404) EXCEPT
                         !.user = user_id, !.authorization = authorization,
                         !.detail = "User not found"]
           /\ UNCHANGED <<clock, recurring, expenses, auth_budget_vars>>
      ELSE LET user == CHOOSE x \in found : TRUE
               named == [user EXCEPT !.full_name = IF full_name # None THEN full_name ELSE @]
               moved == [named EXCEPT !.email = IF email # None THEN EmailStr(email[1]) ELSE @]
           IN  IF email # None /\ EmailInUse(EmailStr(email[1]), user_id)
               THEN /\ users' = SessionClose(users, (users \ {user}) \cup {named})
                    /\ last' = [Response("update_profile", 400) EXCEPT
                                  !.user = user_id, !.authorization = authorization,
                                  !.detail = "Email already in use"]
                    /\ UNCHANGED <<clock, recurring, expenses, budgets, creating,
                                   token_blacklist, passes>>
               ELSE /\ users' = (users \ {user}) \cup {moved}
                    /\ last' = [Response("update_profile", 200) EXCEPT
                                  !.user = user_id, !.authorization = authorization,
                                  !.rows = {moved}]
                    /\ UNCHANGED <<clock, recurring, expenses, budgets, creating,
                                   token_blacklist, passes>>

\* PUT /api/auth/profile (UpdateProfile: full_name and email, each optional),
\* with user_id: int = Depends(get_current_user)
UpdateProfile(authorization, full_name, email) ==
  LET outcome == GetCurrentUser(authorization)
  IN  IF outcome.status = 200
      THEN UpdateProfileBody(outcome.user_id, authorization, full_name, email)
      ELSE Rejected("update_profile", outcome, authorization)

(***************************************************************************)
(* The summary among the other tables (SpecService).                       *)
(***************************************************************************)
\* the access token and the refresh token that register and login make for a
\* user at the instant issued
AccessTokenOf(id, issued) ==
  JwtEncode([AccessData(id) EXCEPT
               !.exp = Timestamp(issued) + ACCESS_TOKEN_EXPIRE_MINUTES], SECRET_KEY)
RefreshTokenOf(id, issued) ==
  JwtEncode([RefreshData(id) EXCEPT
               !.exp = Timestamp(issued) + REFRESH_TOKEN_EXPIRE_MINUTES], SECRET_KEY)

\* the header of a client that presents a token
Bearer(token) == Some(<<"Bearer", " ", token>>)
BearerOf(id, issued) == Bearer(AccessTokenOf(id, issued))

\* requests of POST /api/expenses, one of each user, inside the 30-day window
ServiceExpenses ==
  {[user |-> 1, amount |-> 20000, category |-> "Food", date |-> AnalyticsNow - Days(1)],
   [user |-> 2, amount |-> 7000, category |-> "Other", date |-> AnalyticsNow - Days(2)]}

InitService ==
  /\ clock = AnalyticsNow
  /\ recurring = {}
  /\ expenses = {}
  /\ TwoAccounts
  /\ last = Response("start", 200)

NextService ==
  \/ Tick(AnalyticsInstants)
  \/ \E q \in ServiceExpenses :
       CreateExpense(q.user, q.amount, q.category, None, q.date, None)
  \/ CreateRecurring(2, 25000, "Transport", Some("Bus pass"), "monthly")
  \/ CreateBudget(1, "Food", 500000)
  \/ Logout(BearerOf(1, AnalyticsNow))
  \/ \E u \in Users, months \in {1, 2} : GetAnalyticsSummary(u, months)

SpecService == InitService /\ [][NextService]_vars

(***************************************************************************)
(* Two users working on their own and on each other's ids (SpecOwners).    *)
(***************************************************************************)
NoExpenseUpdate ==
  [amount |-> None, category |-> None, description |-> None, date |-> None,
   tzinfo |-> None]

\* the requests of user u that name an expense id
ExpenseByIdRequest(u, eid) ==
  \/ GetExpense(u, eid)
  \/ \E data \in {[NoExpenseUpdate EXCEPT !.amount = Some(7000)]} : UpdateExpense(u, eid, data)
  \/ DeleteExpense(u, eid)

\* the requests of user u that name a recurring-expense id
RecurringByIdRequest(u, rid) ==
  \/ GetRecurringExpense(u, rid)
  \/ UpdateRecurring(u, rid, [NoUpdate EXCEPT !.is_active = Some(FALSE)])
  \/ DeleteRecurring(u, rid)

\* the list, export and analytics requests of user u
ListRequest(u) ==
  \/ GetExpenses(u, None, None, None)
  \/ \E order \in Orders({e \in expenses : e.owner_id = u}) : ExportToCsv(u, order)
  \/ GetAnalyticsSummary(u, 1)
  \/ GetByCategory(u)
  \/ GetByMonth(u, 1)
  \/ GetRecurringExpenses(u)
  \/ GetBudgets(u)

\* the requests of user u that name a budget by its category
BudgetByCategoryRequest(u) ==
  \/ UpdateBudget(u, "Food", 800000)
  \/ DeleteBudget(u, "Food")

\* the number of expenses after which the two users stop adding some
MaxOwned == 2

\* user 2 has set a recurring expense up and user 1 a budget
InitOwners ==
  /\ clock = AnalyticsNow
  /\ recurring = {RecurringRow(1, 2, 25000, "Transport", None, "monthly", clock)}
  /\ expenses = {}
  /\ users = {UserRow(1, "a@example.com", GoodPassword),
              UserRow(2, "b@example.com", GoodPassword)}
  /\ budgets = {BudgetRow(1, 1, "Food", 500000)}
  /\ creating = {}
  /\ token_blacklist = {}
  /\ passes = {}
  /\ last = Response("start", 200)

\* both users record expenses; each of them lists what they have and names
\* every id and category
NextOwners ==
  \/ \E q \in ServiceExpenses :
       /\ Cardinality(expenses) < MaxOwned
       /\ CreateExpense(q.user, q.amount, q.category, None, q.date, None)
  \/ \E u \in Users : ListRequest(u)
  \/ \E u \in Users, eid \in 1..MaxOwned : ExpenseByIdRequest(u, eid)
  \/ \E u \in Users, rid \in 1..MaxRecurring : RecurringByIdRequest(u, rid)
  \/ \E u \in Users : BudgetByCategoryRequest(u)

SpecOwners == InitOwners /\ [][NextOwners]_vars

(***************************************************************************)
(* Budget requests served by several workers on one database (SpecBudgets):*)
(* a create request can be between its existence query and its commit      *)
(* while other requests are served.                                        *)
(***************************************************************************)
\* requests of POST /api/budgets: the user and the body; the last body fails
\* validation
BudgetRequests ==
  {[user |-> 1, category |-> "Food", monthly_limit |-> 500000],
   [user |-> 1, category |-> "Food", monthly_limit |-> 800000],
   [user |-> 2, category |-> "Food", monthly_limit |-> 300000],
   [user |-> 2, category |-> "Food", monthly_limit |-> 0]}

\* the largest budget id that is handed out
MaxBudgetId == 3

NextBudgets ==
  \/ \E q \in BudgetRequests :
       /\ NewId(budgets) + Cardinality(creating) <= MaxBudgetId
       /\ CreateBudgetQuery(q.user, q.category, q.monthly_limit)
  \/ \E c \in creating : CreateBudgetCommit(c)
  \/ \E u \in Users, monthly_limit \in {0, 650000} : UpdateBudget(u, "Food", monthly_limit)
  \/ \E u \in Users : DeleteBudget(u, "Food")
  \/ \E u \in Users : GetBudgets(u)

SpecBudgets == InitService /\ [][NextBudgets]_vars

(***************************************************************************)
(* Clients with every kind of Authorization header (SpecAuth).             *)
(***************************************************************************)
\* the tokens the service has handed out by the instant now: access tokens of
\* both users at every instant so far, and a refresh token of user 1
IssuedTokens(now) ==
  {AccessTokenOf(id, t) : id \in Users, t \in {i \in AnalyticsInstants : i <= now}}
    \cup {RefreshTokenOf(1, AnalyticsNow)}

\* the Authorization headers of the requests at the instant now: absent, empty,
\* blank, one word, three words, another scheme, other spellings of the scheme,
\* and Bearer with each token handed out and with tokens the service has not
\* made: no token at all, signed with another key, expired at the epoch, signed
\* with the key without a sub claim, and with a sub claim that is no numeral
HeadersAt(now) ==
  LET later == Timestamp(AnalyticsNow + 1) + ACCESS_TOKEN_EXPIRE_MINUTES
      ForeignTokens ==
        {"not-a-token",
         JwtEncode([AccessData(1) EXCEPT !.exp = later], "another-key"),
         JwtEncode(AccessData(1), SECRET_KEY),
         JwtEncode([sub |-> None, type |-> None, exp |-> later], SECRET_KEY),
         JwtEncode([sub |-> Some("abc"), type |-> None, exp |-> later], SECRET_KEY)}
  IN  {None, Some(<<>>), Some(<<" ">>), Some(<<"Bearer">>),
       Some(<<"Bearer", " ", AccessTokenOf(1, AnalyticsNow), " ", "x">>),
       Some(<<"Basic", " ", AccessTokenOf(1, AnalyticsNow)>>),
       Some(<<"bearer", " ", AccessTokenOf(1, AnalyticsNow)>>),
       Some(<<" ", "BEARER", " ", AccessTokenOf(2, AnalyticsNow), " ">>)}
        \cup {Bearer(token) : token \in IssuedTokens(now) \cup ForeignTokens}

WeakPassword == <<"p", "a", "s", "s", "w", "0", "r", "d">>

\* the bodies of POST /api/auth/login: an email that is registered and one that
\* is not, each with the password of the account and with another
LoginEmails == {"a@example.com", "z@example.com"}
LoginPasswords == {GoodPassword, <<"P", "a", "s", "s", "w", "0", "r", "t">>}

NextAuth ==
  \/ Tick(AnalyticsInstants)
  \/ \E email \in {"a@example.com", "c@example.com"},
        password \in {GoodPassword, WeakPassword} : Register(email, password)
  \/ \E email \in LoginEmails, password \in LoginPasswords : Login(email, password)
  \/ \E authorization \in HeadersAt(clock) : Logout(authorization)
  \/ \E authorization \in HeadersAt(clock) : GetMe(authorization)

SpecAuth == InitService /\ [][NextAuth]_vars

(***************************************************************************)
(* Accounts that are registered and that change their profile              *)
(* (SpecProfiles).                                                         *)
(***************************************************************************)
\* the addresses the clients send, two of them with capital letters in the domain
ProfileEmails == {"a@example.com", "b@example.com", "c@example.com", "c@EXAMPLE.COM",
                  "a@Example.com"}

NextProfiles ==
  \/ \E email \in ProfileEmails, password \in {GoodPassword, WeakPassword} :
       Register(email, password)
  \/ \E authorization \in {None} \cup {BearerOf(id, AnalyticsNow) : id \in 1..3},
        full_name \in {None, Some("Ann")},
        email \in {None} \cup {Some(e) : e \in ProfileEmails} :
       UpdateProfile(authorization, full_name, email)

SpecProfiles == InitService /\ [][NextProfiles]_vars

(***************************************************************************)
(* Updates that are refused after they have assigned fields                *)
(* (SpecRejected).                                                         *)
(***************************************************************************)
\* request bodies of PUT /api/expenses/{id}: every body with a date of tomorrow
\* carries an amount, a category and a description as well
RejectedUpdates ==
  {[amount |-> Some(7000), category |-> Some("Transport"), description |-> Some("Taxi"),
    date |-> Some(AnalyticsNow + Days(1)), tzinfo |-> None],
   [amount |-> Some(9000), category |-> None, description |-> None,
    date |-> Some(AnalyticsNow - Days(2)), tzinfo |-> None],
   [NoExpenseUpdate EXCEPT !.category = Some("Other")]}

\* request bodies of PUT /api/auth/profile: every body with the email of one of
\* the two accounts carries a full_name as well
RejectedProfiles ==
  {[full_name |-> Some("Ann"), email |-> None],
   [full_name |-> Some("Bob"), email |-> Some("b@example.com")],
   [full_name |-> Some("Cy"), email |-> Some("a@example.com")],
   [full_name |-> None, email |-> Some("c@example.com")]}

\* user 1 has recorded an expense
InitRejected ==
  /\ clock = AnalyticsNow
  /\ recurring = {}
  /\ expenses = {[id |-> 1, owner_id |-> 1, amount |-> 20000, category |-> "Food",
                  description |-> None, date |-> AnalyticsNow - Days(1)]}
  /\ TwoAccounts
  /\ last = Response("create_expense", 200)

NextRejected ==
  \/ \E u \in Users, data \in RejectedUpdates : UpdateExpense(u, 1, data)
  \/ \E authorization \in {None, BearerOf(1, AnalyticsNow), BearerOf(2, AnalyticsNow)},
        body \in RejectedProfiles :
       UpdateProfile(authorization, body.full_name, body.email)

SpecRejected == InitRejected /\ [][NextRejected]_vars

(***************************************************************************)
(* The monthly trend asked for in both ways (SpecTrends).                  *)
(***************************************************************************)
NextTrends ==
  \* requests of POST /api/expenses by user 1 at 2024-03-31 12:00: dated in the
  \* last hours of January, in the middle of February, in March, and one of
  \* user 2
  LET TrendRequests ==
        {[user |-> 1, amount |-> 5000, category |-> "Transport",
          date |-> DateTime(2024, 1, 31, 13)],
         [user |-> 1, amount |-> 40000, category |-> "Food",
          date |-> DateTime(2024, 2, 15, 9)],
         [user |-> 1, amount |-> 20000, category |-> "Food",
          date |-> DateTime(2024, 3, 10, 9)],
         [user |-> 2, amount |-> 70000, category |-> "Other",
          date |-> DateTime(2024, 3, 10, 9)]}
  IN
      \/ \E q \in TrendRequests :
           CreateExpense(q.user, q.amount, q.category, None, q.date, None)
      \/ \E u \in Users, months \in {0, 1, 2, 3} : GetAnalyticsSummary(u, months)
      \/ \E u \in Users, months \in {0, 1, 2, 3} : GetByMonth(u, months)

SpecTrends == InitService /\ [][NextTrends]_vars

(***************************************************************************)
(* One record that is processed, deactivated and reactivated over the      *)
(* months (SpecPeriods).                                                   *)
(***************************************************************************)
\* instants the clock visits: the last hour of a month, two and 24 hours later,
\* a week later, the end of the month, the end of the year, the next year
PeriodInstants ==
  {DateTime(2024, 1, 31, 23), DateTime(2024, 2, 1, 1),  DateTime(2024, 2, 1, 23),
   DateTime(2024, 2, 7, 22),  DateTime(2024, 2, 7, 23), DateTime(2024, 2, 28, 0),
   DateTime(2024, 12, 31, 0), DateTime(2025, 1, 1, 0),  DateTime(2025, 2, 1, 1)}

\* user 1 has created one record, of any frequency
InitPeriods ==
  /\ clock \in PeriodInstants
  /\ \E f \in FrequencyEnum :
       recurring = {RecurringRow(1, 1, 10000, "Food", Some("Bus pass"), f, clock)}
  /\ expenses = {}
  /\ TwoAccounts
  /\ last = Response("create_recurring", 200)

NextPeriods ==
  \/ Tick(PeriodInstants)
  \/ \E d \in RecurringUpdates : UpdateRecurring(1, 1, d)
  \/ \E order \in Orders(ActiveRecurring(recurring)), failAt \in 0..1 :
       ProcessRecurring(order, failAt)
  \/ \E order \in Orders(ActiveRecurring(recurring)) : GenerateToday(order, 0)

SpecPeriods == InitPeriods /\ [][NextPeriods]_vars

(***************************************************************************)
(* Passes of two workers over the records of two owners (SpecPasses).      *)
(***************************************************************************)
\* the number of workers that serve requests
MaxWorkers == 2

\* a daily record of user 1 and a monthly record of user 2, never generated
InitPasses ==
  /\ clock = DateTime(2024, 1, 31, 23)
  /\ recurring = {RecurringRow(1, 1, 10000, "Food", Some("Lunch"), "daily", clock),
                  RecurringRow(2, 2, 25000, "Transport", Some("Bus pass"), "monthly",
                               clock)}
  /\ expenses = {}
  /\ TwoAccounts
  /\ last = Response("create_recurring", 200)

\* the clock stands still while the workers serve their passes
NextPasses ==
  \/ \E op \in {"process", "generate_today"}, w \in 1..MaxWorkers,
        order \in Orders(ActiveRecurring(recurring)) : PassQuery(op, w, order)
  \/ \E p \in passes : PassTurn(p)
  \/ \E p \in passes : PassReturn(p)

SpecPasses == InitPasses /\ [][NextPasses]_vars

(***************************************************************************)
(* Expenses written by their owner and by the recurring pass (SpecLedger). *)
(***************************************************************************)
\* the largest amount of an ExpenseCreate body, and one unit more
MaxAmount == 1000000 * 1000
OverAmount == 1000001 * 1000

\* the datetimes of the request bodies, at AnalyticsNow = 12:00 UTC: 12:00 naive,
\* 12:00 of the next day naive, 11:00-05:00 (16:00 UTC), 13:00+02:00 (11:00 UTC)
\* and 12:00+00:00
LedgerDates ==
  {[date |-> AnalyticsNow, tzinfo |-> None],
   [date |-> AnalyticsNow + Days(1), tzinfo |-> None],
   [date |-> AnalyticsNow - 1, tzinfo |-> Some(-5)],
   [date |-> AnalyticsNow + 1, tzinfo |-> Some(2)],
   [date |-> AnalyticsNow, tzinfo |-> Some(0)]}

\* amounts of the bodies of POST /api/expenses: 0, 25.50, the limit, above it
LedgerAmounts == {0, 25500, MaxAmount, OverAmount}

\* request bodies of PUT /api/expenses/{id}: an amount above the limit of
\* ExpenseCreate, the amount 0, and a new amount together with each datetime
LedgerUpdates ==
  {[NoExpenseUpdate EXCEPT !.amount = Some(OverAmount)],
   [NoExpenseUpdate EXCEPT !.amount = Some(0)]}
    \cup {[NoExpenseUpdate EXCEPT !.amount = Some(7000), !.date = Some(d.date),
                                  !.tzinfo = d.tzinfo] : d \in LedgerDates}

\* user 1 records and changes expenses of their own; user 2 sets a recurring
\* expense above the limit of ExpenseCreate up, which the pass turns into
\* expenses
NextLedger ==
  \/ Tick(AnalyticsInstants)
  \/ \E amount \in LedgerAmounts, d \in LedgerDates :
       /\ Cardinality(expenses) < MaxOwned
       /\ CreateExpense(1, amount, "Food", None, d.date, d.tzinfo)
  \/ \E eid \in 1..MaxOwned, data \in LedgerUpdates : UpdateExpense(1, eid, data)
  \/ CreateRecurring(2, OverAmount, "Other", Some("Rent"), "daily")
  \/ \E order \in Orders(ActiveRecurring(recurring)) :
       /\ Cardinality(expenses) < MaxOwned
       /\ ProcessRecurring(order, 0)

SpecLedger == InitService /\ [][NextLedger]_vars

\* the last request was an answered GET /api/analytics/summary
Summarized == last.op = "summary" /\ last.status = 200

\* the requesting owner's expenses dated now - 30*months days or later
InWindow ==
  {e \in expenses : e.owner_id = last.user /\ e.date + 24 * 30 * last.months >= last.now}

\* the last request was a completed pass of process_recurring_expenses
Processed == last.op \in {"process", "generate_today"} /\ last.status = 200

\* the decisions of the last pass about records of frequency f that had a last_generated
Decided(f) ==
  {e \in last.evals : e.rec.frequency = f /\ e.rec.last_generated # None}

\* C1: for every frequency and every now, an active record whose last_generated
\* is absent is due: the pass generates an expense for it.
C1_AbsentAlwaysDue ==
  Processed => \A e \in last.evals : e.rec.last_generated = None => e.fired

\* C2: a monthly record with a last_generated is due if and only if the
\* (year, month) of now differs from that of last_generated, whatever the day:
\* Jan 31 -> Feb 1 is due, Feb 1 -> Feb 28 is not, the same month a year on is.
C2_MonthlyDue ==
  /\ Processed =>
       \A e \in Decided("monthly") :
         e.fired <=> (<<Year(last.now), Month(last.now)>> #
                      <<Year(e.rec.last_generated[1]), Month(e.rec.last_generated[1])>>)
  /\ ShouldGenerate("monthly", Some(DateTime(2024, 1, 31, 0)), DateTime(2024, 2, 1, 0))
  /\ ~ShouldGenerate("monthly", Some(DateTime(2024, 2, 1, 0)), DateTime(2024, 2, 28, 0))
  /\ ShouldGenerate("monthly", Some(DateTime(2024, 2, 1, 0)), DateTime(2025, 2, 1, 0))

\* a monthly record last generated on 2024-01-31 fired on 2024-02-01
C2_Witness ==
  /\ Processed
  /\ last.now = DateTime(2024, 2, 1, 1)
  /\ \E e \in Decided("monthly") :
       e.rec.last_generated = Some(DateTime(2024, 1, 31, 23)) /\ e.fired

\* C3: a daily record with last_generated = t processed at t + d fires if and
\* only if d is at least 24 hours (t + 23h is not due, t + 25h is); a weekly
\* record fires if and only if d is at least 7 days.
C3_DailyWeeklyDue ==
  Processed =>
    /\ \A e \in Decided("daily") :
         e.fired <=> (last.now - e.rec.last_generated[1] >= 24)
    /\ \A e \in Decided("weekly") :
         e.fired <=> (last.now - e.rec.last_generated[1] >= 7 * 24)

\* a daily record fired 25 hours after its last generation
C3_Witness ==
  /\ Processed
  /\ \E e \in Decided("daily") : last.now - e.rec.last_generated[1] = 25 /\ e.fired

\* C4 as stated: a daily record is due whenever now falls on a later calendar
\* date than last_generated, even when fewer than 24 hours have elapsed.
C4_CalendarDayDue ==
  Processed =>
    \A e \in Decided("daily") :
      DateOf(last.now) > DateOf(e.rec.last_generated[1]) => e.fired

\* C4 amended: the daily rule counts whole 24-hour periods between
\* last_generated and now, not calendar dates: a record whose now falls on a
\* later calendar date fewer than 24 hours after last_generated is not due, and
\* a record that fires is on a later calendar date.
C4_ElapsedNotCalendar ==
  Processed =>
    \A e \in Decided("daily") :
      /\ (DateOf(last.now) > DateOf(e.rec.last_generated[1])
          /\ last.now - e.rec.last_generated[1] < 24) => ~e.fired
      /\ e.fired => DateOf(last.now) > DateOf(e.rec.last_generated[1])

\* a daily record last generated at 23:00 was passed over at 01:00 the next day
C4_Witness ==
  /\ Processed
  /\ last.now = DateTime(2024, 2, 1, 1)
  /\ \E e \in Decided("daily") :
       e.rec.last_generated = Some(DateTime(2024, 1, 31, 23)) /\ ~e.fired

\* C5: a yearly record with a last_generated is due if and only if the calendar
\* year of now differs from that of last_generated: 2024-06-01 -> 2025-01-01 is
\* due, 2024-06-01 -> 2024-12-31 is not.
C5_YearlyDue ==
  /\ Processed =>
       \A e \in Decided("yearly") :
         e.fired <=> (Year(last.now) # Year(e.rec.last_generated[1]))
  /\ ShouldGenerate("yearly", Some(DateTime(2024, 6, 1, 0)), DateTime(2025, 1, 1, 0))
  /\ ~ShouldGenerate("yearly", Some(DateTime(2024, 6, 1, 0)), DateTime(2024, 12, 31, 0))

\* a yearly record last generated on 2024-06-01 fired on 2025-01-01
C5_Witness ==
  /\ Processed
  /\ last.now = DateTime(2025, 1, 1, 0)
  /\ \E e \in Decided("yearly") :
       e.rec.last_generated = Some(DateTime(2024, 6, 1, 0)) /\ e.fired

\* a step that is a pass of process_recurring_expenses, completed or failed
PassStep == last' # last /\ last'.op \in {"process", "generate_today"}

\* C6: when a record fires at now, exactly one new Expense is created whose
\* owner, amount, category and description equal the record's (also when the
\* description is absent) and whose date is now, and the record's
\* last_generated is set to now.
C6_FireCopiesRecord ==
  Processed =>
    \A e \in last.evals :
      e.fired =>
        /\ Cardinality({x \in expenses : x.id = e.eid}) = 1
        /\ \A x \in expenses :
             x.id = e.eid =>
               /\ x.owner_id = e.rec.owner_id
               /\ x.amount = e.rec.amount
               /\ x.category = e.rec.category
               /\ x.description = e.rec.description
               /\ x.date = last.now
        /\ \E r \in recurring : r.id = e.rec.id /\ r.last_generated = Some(last.now)

\* C7: a pass evaluates every record with is_active true, of every owner, and
\* none with is_active false; a record fires in the pass exactly when it fires
\* in a pass over that record alone, whatever the other records and the order;
\* the returned count is the number of expenses the pass created.
C7_PassCoversActive ==
  [][(PassStep /\ last'.status = 200) =>
       /\ {e.rec : e \in last'.evals} = {r \in recurring : r.is_active}
       /\ \A e \in last'.evals :
            e.fired <=>
              ProcessPass(<<e.rec>>, 1,
                          [exp |-> {}, rec |-> {e.rec}, count |-> 0, evals |-> {},
                           failed |-> FALSE], clock, 0).count = 1
       /\ \A r \in recurring : ~r.is_active => r \in recurring'
       /\ last'.count = Cardinality(expenses' \ expenses)
       /\ last'.count = Cardinality({e \in last'.evals : e.fired})]_vars

\* a pass generated an expense for one owner's record while another owner's
\* record, never generated but inactive, was left out
C7_Witness ==
  /\ Processed
  /\ last.count = 1
  /\ \E e \in last.evals, r \in recurring :
       /\ e.fired
       /\ ~r.is_active /\ r.last_generated = None
       /\ r.owner_id # e.rec.owner_id

\* C8: the new Expense and the new last_generated of a record that fires are
\* written together or not at all, also when the pass fails part-way: after
\* every pass the new expenses and the records whose last_generated moved
\* correspond one to one.
C8_FireIsAtomic ==
  [][PassStep =>
       LET new_expenses == expenses' \ expenses
           moved == {r \in recurring :
                       \A r2 \in recurring' :
                         r2.id = r.id => r2.last_generated # r.last_generated}
       IN  /\ expenses \subseteq expenses'
           /\ Cardinality(new_expenses) = Cardinality(moved)
           /\ \A r \in moved :
                /\ \E r2 \in recurring' :
                     r2.id = r.id /\ r2.last_generated = Some(clock)
                /\ \E x \in new_expenses :
                     /\ x.owner_id = r.owner_id /\ x.amount = r.amount
                     /\ x.category = r.category /\ x.date = clock]_vars

\* a pass failed at its second commit, after the first record had been written
C8_Witness ==
  /\ last.op = "process"
  /\ last.status = 500
  /\ \E e \in last.evals :
       /\ e.fired
       /\ \E x \in expenses : x.id = e.eid /\ x.date = last.now
       /\ \E r \in recurring : r.id = e.rec.id /\ r.last_generated = Some(last.now)

\* every change of is_active is made by update_recurring_expense
ActiveOnlyByUpdate ==
  \A r \in recurring, r2 \in recurring' :
    (r2.id = r.id /\ r2.is_active # r.is_active) => last'.op = "update_recurring"

\* C9 as stated: a pass changes no field of a record other than last_generated,
\* deletes or deactivates no record, modifies or deletes no existing Expense,
\* and leaves a record that does not fire unchanged; is_active changes only
\* through a user's update request.
C9_OnlyLastGenerated ==
  [][/\ PassStep =>
          /\ \A r \in recurring :
               \E r2 \in recurring' :
                 r2 = [r EXCEPT !.last_generated = r2.last_generated]
          /\ Cardinality(recurring') = Cardinality(recurring)
          /\ expenses \subseteq expenses'
          /\ \A r \in recurring \ {e.rec : e \in {f \in last'.evals : f.fired}} :
               r \in recurring'
     /\ ActiveOnlyByUpdate]_vars

\* C9 amended: a pass changes no field of a record other than last_generated
\* and updated_at (the onupdate timestamp written by the same UPDATE); the rest
\* as stated.
C9_OnlyLastGeneratedAndStamp ==
  [][/\ PassStep =>
          /\ \A r \in recurring :
               \E r2 \in recurring' :
                 r2 = [r EXCEPT !.last_generated = r2.last_generated,
                                !.updated_at = r2.updated_at]
          /\ Cardinality(recurring') = Cardinality(recurring)
          /\ expenses \subseteq expenses'
          /\ \A r \in recurring \ {e.rec : e \in {f \in last'.evals : f.fired}} :
               r \in recurring'
     /\ ActiveOnlyByUpdate]_vars

\* a pass fired one record and passed over another while an expense of an
\* earlier pass was in the table
C9_Witness ==
  /\ Processed
  /\ \E e1, e2 \in last.evals : e1.fired /\ ~e2.fired
  /\ \E x \in expenses : x.date < last.now
  /\ \E e \in last.evals, r \in recurring :
       e.fired /\ r.id = e.rec.id /\ r.updated_at # e.rec.updated_at

\* C10 as stated: for every months in 1..60, total_spending equals the sum of
\* the amounts of exactly the requesting owner's expenses dated now minus
\* 30*months days or later.
C10_TotalIsWindowSum ==
  Summarized => last.total_spending = SumAmounts(InWindow)

\* C10 amended: total_spending is that sum rounded to 2 decimal places: a
\* multiple of 0.01 within 0.005 of the sum.
C10_TotalIsRoundedWindowSum ==
  Summarized =>
    /\ last.months \in 1..60
    /\ last.total_spending % 10 = 0
    /\ last.total_spending - SumAmounts(InWindow) \in -5..5

\* a one-month summary counted the expense dated exactly 30 days before now and
\* left out the owner's expense one hour older and the other owner's expense
C10_Witness ==
  /\ Summarized
  /\ last.months = 1 /\ last.user = 1
  /\ \E e \in expenses : e.owner_id = 1 /\ e.date = last.now - Days(30)
  /\ \E e \in expenses : e.owner_id = 1 /\ e.date = last.now - Days(30) - 1
  /\ \E e \in expenses : e.owner_id = 2 /\ e.date >= last.now - Days(30)
  /\ last.total_spending = 50000

\* the position of a category in the declaration order of CategoryEnum
EnumIndex(c) == CHOOSE i \in 1..Len(CategoryEnum) : CategoryEnum[i] = c

\* the expenses of rows in category c
InCategory(rows, c) == {e \in rows : e.category = c}

\* p hundredths of a percent is exactly 100 * part / whole
IsExactPercentage(p, part, whole) ==
  (p - 100 * ((part * 100) \div whole)) * whole = 100 * ((part * 100) % whole)

\* p hundredths of a percent is within half a hundredth of 100 * part / whole
IsRoundedPercentage(p, part, whole) ==
  LET d == (p - 100 * ((part * 100) \div whole)) * whole - 100 * ((part * 100) % whole)
  IN  2 * d <= whole /\ -2 * d <= whole

\* t thousandths is a multiple of 0.01 within 0.005 of x thousandths
IsRounded2(t, x) == t % 10 = 0 /\ t - x \in -5..5

\* the breakdown b has one entry for each category that occurs in rows and no
\* other, in the declaration order, each with the number of its expenses
CoversCategories(b, rows) ==
  /\ {b[i].category : i \in DOMAIN b} = {e.category : e \in rows}
  /\ \A i, j \in DOMAIN b : i < j => EnumIndex(b[i].category) < EnumIndex(b[j].category)
  /\ \A i \in DOMAIN b : b[i].count = Cardinality(InCategory(rows, b[i].category))

\* every total of b is the category's sum and every percentage its exact share
ExactBreakdown(b, rows) ==
  \A i \in DOMAIN b :
    /\ b[i].total = SumAmounts(InCategory(rows, b[i].category))
    /\ IsExactPercentage(b[i].percentage,
                         SumAmounts(InCategory(rows, b[i].category)), SumAmounts(rows))

\* every total and percentage of b is the 2-decimal rounding of those values
RoundedBreakdown(b, rows) ==
  \A i \in DOMAIN b :
    /\ IsRounded2(b[i].total, SumAmounts(InCategory(rows, b[i].category)))
    /\ IsRoundedPercentage(b[i].percentage,
                           SumAmounts(InCategory(rows, b[i].category)), SumAmounts(rows))

\* the expenses of rows dated in the 30-day bucket of entry i of the trend
\* (entries numbered from 1): from now - 30 * (months - (i - 1)) days on, for
\* 30 days, the end excluded
InBucket(rows, i) ==
  {e \in rows : /\ e.date >= last.now - Days(30 * (last.months - (i - 1)))
                /\ e.date < last.now - Days(30 * (last.months - (i - 1))) + Days(30)}

\* C11: for every months in 1..60 and every day of the month of now,
\* current_month_spending is the sum (reported, as every total is, to 2
\* decimals) of the owner's expenses dated on or after the first instant of the
\* current calendar month.
C11_CurrentMonthIsCalendarMonth ==
  Summarized =>
    last.current_month_spending =
      Round2(SumAmounts({e \in expenses :
                           e.owner_id = last.user /\ e.date >= MonthStart(last.now)}))

\* C12 as stated: by_category has one entry for each category with a filtered
\* expense and none other, in declaration order; each total is the category's
\* sum, each count the number of its expenses, each percentage
\* 100 * categoryTotal / totalSpend; a denominator of 0 gives 0.
C12_BreakdownIsExact ==
  /\ Summarized =>
       /\ CoversCategories(last.by_category, InWindow)
       /\ ExactBreakdown(last.by_category, InWindow)
  /\ Percentage(0, 0) = 0

\* C12 amended: the totals and percentages are those values rounded to 2
\* decimal places; the rest as stated.
C12_BreakdownIsRounded ==
  /\ Summarized =>
       /\ CoversCategories(last.by_category, InWindow)
       /\ RoundedBreakdown(last.by_category, InWindow)
  /\ Percentage(0, 0) = 0
  /\ Percentage(50000, 100000) = 5000

\* a two-month summary listed Food (two expenses) before Transport, and left out
\* the categories without an expense
C12_Witness ==
  /\ Summarized
  /\ last.user = 1 /\ last.months = 2
  /\ Len(last.by_category) = 2
  /\ last.by_category[1].category = "Food" /\ last.by_category[1].count = 2
  /\ last.by_category[2].category = "Transport" /\ last.by_category[2].total = 5000

\* C13 as stated: monthly_trends has exactly months entries, oldest first;
\* entry i covers the 30-day bucket starting at now - 30 * (months - i) days
\* (start included, end excluded); its total is the sum of the filtered amounts
\* dated in the bucket, its by_category the breakdown of the bucket, its label
\* the year-month of the bucket start.
C13_TrendIsExact ==
  Summarized =>
    /\ Len(last.monthly_trends) = last.months
    /\ \A i \in 1..Len(last.monthly_trends) :
         /\ last.monthly_trends[i].total = SumAmounts(InBucket(InWindow, i))
         /\ last.monthly_trends[i].month =
              StrftimeYm(last.now - Days(30 * (last.months - (i - 1))))
         /\ CoversCategories(last.monthly_trends[i].by_category, InBucket(InWindow, i))
         /\ ExactBreakdown(last.monthly_trends[i].by_category, InBucket(InWindow, i))

\* C13 amended: the totals and percentages of the entries are those values
\* rounded to 2 decimal places; the rest as stated.
C13_TrendIsRounded ==
  Summarized =>
    /\ Len(last.monthly_trends) = last.months
    /\ \A i \in 1..Len(last.monthly_trends) :
         /\ IsRounded2(last.monthly_trends[i].total, SumAmounts(InBucket(InWindow, i)))
         /\ last.monthly_trends[i].month =
              StrftimeYm(last.now - Days(30 * (last.months - (i - 1))))
         /\ CoversCategories(last.monthly_trends[i].by_category, InBucket(InWindow, i))
         /\ RoundedBreakdown(last.monthly_trends[i].by_category, InBucket(InWindow, i))

\* a two-month summary at 2024-03-31 12:00 put the expense dated one hour before
\* the start of the second bucket in the first ("2024-01") and the expense dated
\* on that start in the second ("2024-03"), and the expense dated now in neither
C13_Witness ==
  /\ Summarized
  /\ last.user = 1 /\ last.months = 2 /\ last.now = AnalyticsNow
  /\ \E e \in expenses : e.owner_id = 1 /\ e.date = last.now
  /\ last.monthly_trends[1].month = "2024-01"
  /\ last.monthly_trends[1].total = 5000
  /\ last.monthly_trends[2].month = "2024-03"
  /\ last.monthly_trends[2].total = 50000

\* C14: for an owner with no expense in the window the summary is answered, with
\* total_spending 0, current_month_spending 0, an empty by_category and exactly
\* months monthly_trends entries, each with total 0 and an empty breakdown.
C14_EmptyWindow ==
  (last.op = "summary" /\ last.months \in 1..60 /\ InWindow = {}) =>
    /\ last.status = 200
    /\ last.total_spending = 0
    /\ last.current_month_spending = 0
    /\ last.by_category = <<>>
    /\ Len(last.monthly_trends) = last.months
    /\ \A i \in 1..Len(last.monthly_trends) :
         /\ last.monthly_trends[i].total = 0
         /\ last.monthly_trends[i].by_category = <<>>

\* a one-month summary for an owner whose only expenses are older than the
\* window, while the other owner has an expense in it
C14_Witness ==
  /\ Summarized
  /\ last.months = 1 /\ last.user = 1
  /\ InWindow = {}
  /\ \E e \in expenses : e.owner_id = 1
  /\ \E e \in expenses : e.owner_id = 2 /\ e.date >= last.now - Days(30)
  /\ Len(last.monthly_trends) = 1

\* C16: every total and every percentage of the summary is the 2-decimal
\* rounding of the unrounded accumulated value, sums and quotients being taken
\* over unrounded amounts: three equal categories report 33.33 each, which do
\* not add up to 100.00.
C16_RoundedAtEmission ==
  /\ Summarized =>
       /\ IsRounded2(last.total_spending, SumAmounts(InWindow))
       /\ IsRounded2(last.current_month_spending,
                     SumAmounts({e \in InWindow : e.date >= MonthStart(last.now)}))
       /\ RoundedBreakdown(last.by_category, InWindow)
       /\ \A i \in 1..Len(last.monthly_trends) :
            /\ IsRounded2(last.monthly_trends[i].total, SumAmounts(InBucket(InWindow, i)))
            /\ RoundedBreakdown(last.monthly_trends[i].by_category, InBucket(InWindow, i))
       /\ (/\ Len(last.by_category) = 3
           /\ \A e1, e2 \in InWindow : e1.amount = e2.amount
           /\ \A i \in 1..3 : last.by_category[i].count = 1)
          => /\ \A i \in 1..3 : last.by_category[i].percentage = 3333
             /\ last.by_category[1].percentage + last.by_category[2].percentage
                  + last.by_category[3].percentage # 10000
  /\ Percentage(10000, 30000) = 3333
  /\ Percentage(20000, 30000) = 6667

\* a summary over three categories of 5.004 each: total_spending 15.01, each
\* category total 5.0 and percentage 33.33
C16_Witness ==
  /\ Summarized
  /\ last.total_spending = 15010
  /\ Len(last.by_category) = 3
  /\ \A i \in 1..3 : /\ last.by_category[i].total = 5000
                     /\ last.by_category[i].percentage = 3333

Own(rows, u) == {r \in rows : r.owner_id = u}
Others(rows, u) == {r \in rows : r.owner_id # u}

\* the step is a request of user u for the expense eid
ExpenseByIdStep(u, eid) ==
  \/ last'.op = "get_expense" /\ GetExpense(u, eid)
  \/ last'.op = "update_expense" /\ \E data \in {[NoExpenseUpdate EXCEPT !.amount = Some(7000)]} : UpdateExpense(u, eid, data)
  \/ last'.op = "delete_expense" /\ DeleteExpense(u, eid)

\* the step is a request of user u for the recurring expense rid
RecurringByIdStep(u, rid) ==
  \/ last'.op = "get_recurring_expense" /\ GetRecurringExpense(u, rid)
  \/ last'.op = "update_recurring"
       /\ UpdateRecurring(u, rid, [NoUpdate EXCEPT !.is_active = Some(FALSE)])
  \/ last'.op = "delete_recurring" /\ DeleteRecurring(u, rid)

\* the step is a list, export or analytics request of u, or one that names a
\* budget of u by its category
ListStep(u) ==
  \/ last'.op = "get_expenses" /\ GetExpenses(u, None, None, None)
  \/ last'.op = "export_csv"
       /\ \E order \in Orders({e \in expenses : e.owner_id = u}) : ExportToCsv(u, order)
  \/ last'.op = "summary" /\ GetAnalyticsSummary(u, 1)
  \/ last'.op = "by_category" /\ GetByCategory(u)
  \/ last'.op = "by_month" /\ GetByMonth(u, 1)
  \/ last'.op = "get_recurring_expenses" /\ GetRecurringExpenses(u)
  \/ last'.op = "get_budgets" /\ GetBudgets(u)
  \/ last'.op = "update_budget" /\ UpdateBudget(u, "Food", 800000)
  \/ last'.op = "delete_budget" /\ DeleteBudget(u, "Food")

\* the step returns rows of u only and leaves the rows of the other owners as
\* they were
KeepsToOwner(u) ==
  /\ \A r \in last'.rows : r.owner_id = u
  /\ Others(expenses', u) = Others(expenses, u)
  /\ Others(recurring', u) = Others(recurring, u)
  /\ Others(budgets', u) = Others(budgets, u)

\* C17: a list, get, update, delete, export or analytics request of user u
\* returns rows of u only, computes its sums and its CSV lines from rows of u
\* only, and leaves the rows of every other owner as they were; a get, update or
\* delete that names the id of another owner's expense or recurring expense is
\* answered 404 and changes nothing
C17_NoCrossOwner ==
  [][/\ last'.op \in {"get_expenses", "export_csv", "summary", "by_category", "by_month",
                      "get_recurring_expenses", "get_budgets", "update_budget",
                      "delete_budget"}
          => \A u \in Users :
               ListStep(u)
                 => /\ KeepsToOwner(u)
                    /\ last'.op \in {"get_expenses", "export_csv", "by_category"}
                         => last'.rows = Own(expenses, u)
                    /\ last'.op \in {"summary", "by_category"}
                         => last'.total_spending = Round2(SumAmounts(last'.rows))
                    /\ last'.op = "by_month"
                         => \A i \in 1..Len(last'.monthly_trends) :
                              last'.monthly_trends[i].total
                                <= Round2(SumAmounts(last'.rows))
                    /\ last'.op = "export_csv"
                         => /\ Len(last'.csv) = 1 + Cardinality(Own(expenses, u))
                            /\ \A i \in 2..Len(last'.csv) :
                                 \E e \in Own(expenses, u) : last'.csv[i] = CsvLine(e)
     /\ last'.op \in {"get_expense", "update_expense", "delete_expense"}
          => \A u \in Users, eid \in 1..MaxOwned :
               ExpenseByIdStep(u, eid)
                 => /\ KeepsToOwner(u)
                    /\ (\E e \in expenses : e.id = eid /\ e.owner_id # u)
                         => last'.status = 404 /\ expenses' = expenses
     /\ last'.op \in {"get_recurring_expense", "update_recurring", "delete_recurring"}
          => \A u \in Users, rid \in 1..MaxRecurring :
               RecurringByIdStep(u, rid)
                 => /\ KeepsToOwner(u)
                    /\ (\E r \in recurring : r.id = rid /\ r.owner_id # u)
                         => last'.status = 404 /\ recurring' = recurring]_vars

\* a delete that found nothing although every expense id is taken, among
\* expenses of both owners: it named the expense of another owner
C17_Witness ==
  /\ last.op = "delete_expense" /\ last.status = 404
  /\ {e.id : e \in expenses} = 1..MaxOwned
  /\ \A u \in Users : Own(expenses, u) # {}

IsBearer(authorization) ==
  /\ authorization # None
  /\ Len(Split(authorization[1])) = 2
  /\ Lower(Split(authorization[1])[1]) = "bearer"

\* the token of such a header
TokenOf(authorization) == Split(authorization[1])[2]

\* the step answers a request to a protected route that carries the header
ProtectedStep(authorization) ==
  \/ last'.op = "logout" /\ Logout(authorization)
  \/ last'.op = "me" /\ GetMe(authorization)

\* nothing but the answer changes in the step
OnlyAnswered == UNCHANGED <<clock, recurring, expenses, users, budgets, creating,
                            token_blacklist, passes>>

\* C19: no step takes a token off the blacklist; a successful logout puts the
\* token of its header on it; a request that carries a token of the blacklist
\* to a protected route, logout included, is answered 401 'Token has been
\* revoked' and changes nothing
C19_RevokedStaysRevoked ==
  [][/\ token_blacklist \subseteq token_blacklist'
     /\ (last'.op = "logout" /\ last'.status = 200)
          => TokenOf(last'.authorization) \in token_blacklist'
     /\ last'.op \in {"logout", "me"}
          => \A authorization \in HeadersAt(clock) :
               (/\ IsBearer(authorization)
                /\ TokenOf(authorization) \in token_blacklist
                /\ ProtectedStep(authorization))
                 => /\ last'.status = 401
                    /\ last'.detail = "Token has been revoked"
                    /\ OnlyAnswered]_vars

\* a request was answered 'Token has been revoked' although the token it
\* carried had expired by then
C19_Witness ==
  /\ last.op = "me" /\ last.status = 401 /\ last.detail = "Token has been revoked"
  /\ last.now = clock
  /\ TokenOf(last.authorization) = AccessTokenOf(1, AnalyticsNow)
  /\ JwtDecode(TokenOf(last.authorization), clock) = None

\* the payloads with which SECRET_KEY has signed the token and which have not
\* expired
ValidPayloads(token) ==
  {c \in ClaimSets : JwtEncode(c, SECRET_KEY) = token /\ c.exp >= Timestamp(clock)}

\* C20: a request to a protected route is answered 403 without a header, with a
\* header that has not two words, and with a scheme that is not bearer; 401
\* with a token that is revoked, that SECRET_KEY has not signed, that has
\* expired, or that has no sub claim; every other request is served for the
\* user whose id is the integer of the sub claim; a request answered 401 or 403
\* changes nothing
C20_Classified ==
  [][last'.op \in {"logout", "me"}
       => \A authorization \in HeadersAt(clock) :
            ProtectedStep(authorization)
              => /\ last'.status \in {401, 403} => OnlyAnswered
                 /\ IF ~IsBearer(authorization)
                    THEN last'.status = 403
                    ELSE IF \/ TokenOf(authorization) \in token_blacklist
                            \/ \A c \in ValidPayloads(TokenOf(authorization)) : c.sub = None
                    THEN last'.status = 401
                    ELSE /\ last'.status \notin {401, 403, 500}
                         /\ \E c \in ValidPayloads(TokenOf(authorization)) :
                              ToString(last'.user) = c.sub[1]]_vars

\* the step answers a request to PUT /api/auth/profile
ProfileStep(authorization, full_name, email) ==
  last'.op = "update_profile" /\ UpdateProfile(authorization, full_name, email)

\* C21: no two accounts have the same email; a register with a valid password
\* and an email that an account has is answered 400 and adds no account; an
\* update_profile of an account to the email of another account is answered 400
\* and changes no account
C21_EmailsDistinct ==
  /\ [](\A x, y \in users : x.email = y.email => x = y)
  /\ [][/\ last'.op = "register"
            => \A email \in ProfileEmails :
                 (/\ \E x \in users : x.email = EmailStr(email)
                  /\ Register(email, GoodPassword))
                   => /\ last'.status = 400
                      /\ last'.detail = "Email already registered"
                      /\ users' = users
        /\ last'.op = "update_profile"
            => \A full_name \in {None, Some("Ann")}, e \in ProfileEmails :
                 (/\ last'.user # 0
                  /\ \E x, y \in users :
                       x.id = last'.user /\ y.id # x.id /\ y.email = EmailStr(e)
                  /\ ProfileStep(last'.authorization, full_name, Some(e)))
                   => /\ last'.status = 400
                      /\ last'.detail = "Email already in use"
                      /\ users' = users]_vars

\* an account that had moved to another address was refused the address it had
\* left, which a third account had registered in between
C21_Witness ==
  /\ last.op = "update_profile" /\ last.status = 400 /\ last.user = 1
  /\ \E x, y \in users :
       /\ x.id = 1 /\ x.email = "c@example.com"
       /\ y.id = 3 /\ y.email = "a@example.com"

\* the instant, in naive UTC, that a datetime of a request body denotes
UtcInstant(date, tzinfo) == IF tzinfo = None THEN date ELSE date - tzinfo[1]

\* C22: a create_expense or update_expense whose date denotes an instant after
\* the current UTC time, naive or timezone-aware, is answered 400 and writes
\* nothing; no stored expense has a date later than the current time
C22_NoFutureDate ==
  /\ [][/\ last'.op = "create_expense"
            => \A amount \in LedgerAmounts, d \in LedgerDates :
                 (/\ amount > 0 /\ amount <= MaxAmount
                  /\ UtcInstant(d.date, d.tzinfo) > clock
                  /\ CreateExpense(1, amount, "Food", None, d.date, d.tzinfo))
                   => last'.status = 400 /\ expenses' = expenses
        /\ last'.op = "update_expense"
            => \A eid \in 1..MaxOwned, data \in LedgerUpdates :
                 (/\ data.date # None
                  /\ UtcInstant(data.date[1], data.tzinfo) > clock
                  /\ ExpenseOf(1, eid) # {}
                  /\ UpdateExpense(1, eid, data))
                   => last'.status = 400 /\ expenses' = expenses]_vars
  /\ [](\A e \in expenses : e.date <= clock)

\* C23: no stored expense has an amount outside (0, 1,000,000]; a create, or an
\* update of an expense of the user, that carries an amount outside of it is
\* answered 422 and writes nothing
C23_AmountInRange ==
  /\ [](\A e \in expenses : e.amount > 0 /\ e.amount <= MaxAmount)
  /\ [][/\ last'.op = "create_expense"
            => \A amount \in LedgerAmounts \ (1..MaxAmount), d \in LedgerDates :
                 CreateExpense(1, amount, "Food", None, d.date, d.tzinfo)
                   => last'.status = 422 /\ expenses' = expenses
        /\ last'.op = "update_expense"
            => \A eid \in 1..MaxOwned, data \in LedgerUpdates :
                 (/\ data.amount # None
                  /\ data.amount[1] \notin 1..MaxAmount
                  /\ ExpenseOf(1, eid) # {}
                  /\ UpdateExpense(1, eid, data))
                   => last'.status = 422 /\ expenses' = expenses]_vars

\* no account has this email and this password
LoginFails(email, password) ==
  ~\E x \in users : /\ x.email = EmailStr(email)
                    /\ VerifyPassword(password, x.hashed_password)

\* C24: a login with an email that is not registered and a login with a
\* registered email and a wrong password are answered alike, 401 'Invalid email
\* or password': the answer to one failed login is the answer to every other
\* failed login made in its place; it carries no token and nothing else changes
C24_FailedLoginsAlike ==
  [][last'.op = "login"
       => \A e1 \in LoginEmails, p1 \in LoginPasswords :
            (LoginFails(e1, p1) /\ Login(e1, p1))
              => /\ last'.status = 401
                 /\ last'.detail = "Invalid email or password"
                 /\ last'.access_token = None /\ last'.refresh_token = None
                 /\ OnlyAnswered
                 /\ \A e2 \in LoginEmails, p2 \in LoginPasswords :
                      LoginFails(e2, p2) => Login(e2, p2)]_vars

\* a login was refused while one of the emails of the requests was registered
\* and the other was not
C24_Witness ==
  /\ last.op = "login" /\ last.status = 401
  /\ last.access_token = None
  /\ \E e \in LoginEmails : \E x \in users : x.email = e
  /\ \E e \in LoginEmails : \A x \in users : x.email # e

\* the expenses generated from the record r, and those generated at the instant t
GeneratedBy(r) ==
  {e \in expenses : /\ e.owner_id = r.owner_id /\ e.amount = r.amount
                    /\ e.category = r.category}
GeneratedFrom(r, t) == {e \in GeneratedBy(r) : e.date = t}

\* C25: when passes interleave, so that a pass queries the active records
\* before another pass that has queried them commits, no record has two
\* expenses generated for one instant
C25_NoDoubleGeneration ==
  \A r \in recurring : Cardinality(GeneratedFrom(r, clock)) <= 1

\* two expenses of one record are dated in different periods of its frequency
ApartFor(frequency, t1, t2) ==
  CASE frequency = "daily"   -> t1 - t2 >= 24 \/ t2 - t1 >= 24
    [] frequency = "weekly"  -> t1 - t2 >= 7 * 24 \/ t2 - t1 >= 7 * 24
    [] frequency = "monthly" -> <<Year(t1), Month(t1)>> # <<Year(t2), Month(t2)>>
    [] frequency = "yearly"  -> Year(t1) # Year(t2)

CountIn(b, category) ==
  LET at == {k \in DOMAIN b : b[k].category = category}
  IN  IF at = {} THEN 0 ELSE b[CHOOSE k \in at : TRUE].count

\* the counts of a category in the entries 1..n of the trend, added up
RECURSIVE SumCounts(_, _, _)
SumCounts(trends, n, category) ==
  IF n = 0 THEN 0
  ELSE CountIn(trends[n].by_category, category) + SumCounts(trends, n - 1, category)

\* the unrounded totals of the buckets 1..n, added up
RECURSIVE SumBuckets(_, _)
SumBuckets(rows, n) ==
  IF n = 0 THEN 0 ELSE SumAmounts(InBucket(rows, n)) + SumBuckets(rows, n - 1)

\* C27: every expense counted in total_spending lies in exactly one of the
\* 30-day buckets of monthly_trends: the unrounded totals of the buckets add up
\* to the unrounded total, and for every category the counts of the entries add
\* up to the count of by_category
C27_BucketsPartition ==
  Summarized =>
    /\ \A e \in InWindow :
         Cardinality({i \in 1..last.months : e \in InBucket(InWindow, i)}) = 1
    /\ SumBuckets(InWindow, last.months) = SumAmounts(InWindow)
    /\ \A k \in 1..Len(last.by_category) :
         SumCounts(last.monthly_trends, last.months, last.by_category[k].category)
           = last.by_category[k].count

\* C28: /analytics/by-month answers with what /analytics/summary reports as
\* monthly_trends for the same owner, months and now: the same number of
\* entries, and in entry i the same month label and the same total
C28_ByMonthIsSummaryTrend ==
  [][(last'.op = "by_month" /\ last'.status = 200)
       => LET summary == SummaryResponse(last'.user, last'.months)
          IN  /\ summary.status = 200
              /\ Len(last'.monthly_trends) = last'.months
              /\ Len(summary.monthly_trends) = last'.months
              /\ \A i \in 1..last'.months :
                   /\ last'.monthly_trends[i].month = summary.monthly_trends[i].month
                   /\ last'.monthly_trends[i].total = summary.monthly_trends[i].total]_vars

\* C29: an update_expense or update_profile that is answered with a 4xx status
\* changes no table: an update_expense with a date in the future writes none
\* of the amount, category and description of its body, and an update_profile
\* with the email of another account writes neither the full_name nor the
\* email of its body
C29_RejectedWritesNothing ==
  [][/\ (last'.op \in {"update_expense", "update_profile"} /\ last'.status \in 400..499)
          => OnlyAnswered
     /\ last'.op = "update_expense"
          => \A data \in RejectedUpdates :
               (/\ data.date # None /\ data.date[1] > clock
                /\ data.amount # None /\ data.category # None /\ data.description # None
                /\ UpdateExpense(1, 1, data))
                 => last'.status = 400 /\ expenses' = expenses
     /\ last'.op = "update_profile"
          => \A body \in RejectedProfiles :
               (/\ body.full_name # None /\ body.email # None
                /\ last'.user # 0
                /\ EmailInUse(EmailStr(body.email[1]), last'.user)
                /\ ProfileStep(last'.authorization, body.full_name, body.email))
                 => last'.status = 400 /\ users' = users]_vars

\* account 1, which had given itself a name before, was refused the email of
\* account 2 and has kept its name and its email
C29_Witness ==
  /\ last.op = "update_profile" /\ last.status = 400 /\ last.user = 1
  /\ \E x \in users :
       x.id = 1 /\ x.full_name = Some("Ann") /\ x.email = "a@example.com"
  /\ \E e \in expenses : e.category = "Other" /\ e.amount = 20000

\* C30: a logout that succeeds puts the token of its header on the blacklist
\* and changes nothing else but the answer: every other token handed out so
\* far that get_current_user accepted before the logout (the refresh token
\* of user 1, access tokens of the other user) is accepted after it
C30_LogoutRevokesOneToken ==
  [][(last'.op = "logout" /\ last'.status = 200 /\ Logout(last'.authorization))
       => /\ token_blacklist' = token_blacklist \cup {TokenOf(last'.authorization)}
          /\ UNCHANGED <<clock, recurring, expenses, users, budgets, creating, passes>>
          /\ \A t \in IssuedTokens(clock) \ {TokenOf(last'.authorization)} :
               GetCurrentUser(Bearer(t)).status = 200
                 => /\ t \notin token_blacklist'
                    /\ JwtDecode(t, clock') # None]_vars

\* user 1 has logged out with an access token; the refresh token of user 1 and
\* the access token of user 2 are accepted
C30_Witness ==
  /\ last.op = "logout" /\ last.status = 200 /\ last.user = 1
  /\ TokenOf(last.authorization) = AccessTokenOf(1, clock)
  /\ token_blacklist = {AccessTokenOf(1, clock)}
  /\ GetCurrentUser(Bearer(RefreshTokenOf(1, AnalyticsNow))) = Admitted(1)
  /\ GetCurrentUser(BearerOf(2, clock)) = Admitted(2)

====
